---- MODULE Spec2Model ----
(***************************************************************************)
(* A model of the data-loading pipeline of allamo: AllamoDataset (one      *)
(* corpus file in memory, cyclic padding, rank sharding, the               *)
(* processed-files ledger), AllamoDataLoader (the sequential cursor, the   *)
(* epoch rollover, the one-slot prefetch buffer and its worker threads)    *)
(* and the part of AllamoTrainer that drives it (the training loop, the    *)
(* checkpoint and the resume).                                             *)
(*                                                                         *)
(* A corpus file is a list of structured samples; a sample is named by     *)
(* <<file, position in the file before padding>>.  File names are the      *)
(* integers 1..n, so the sorted catalog is <<1, .., n>>.                   *)
(***************************************************************************)
EXTENDS Integers, Sequences, FiniteSets, TLC

\* ------------------------------------------------------------------ bounds
MaxWorld == 2
MaxFiles == 2
MaxRaw == 3
MaxBatch == 2
MaxStart == 1
MaxCalls == 4
MaxWorkers == 2
MaxResumes == 1
MaxCatalogFiles == 3
MaxCatalogRaw == 2
MaxShardRaw == 6
MaxShardWorld == 4
MaxLoadFiles == 2
MaxLoadWorld == 2
MaxBlock == 4
MaxTokens == 11
MaxNames == 2
MaxListed == 2
MaxSchedBatch == 3
MaxRampQuarters == 8
MaxIterNum == 4
MaxSampleBlock == 3
MaxFieldLen == 5
MaxValRaw == 1
MaxMarked == 2
MaxSeqs == 3
MaxSeqLen == 3
MaxPackLen == 6
MaxCollate == 3

\* ------------------------------------------------------ AllamoDataset, pure

Min(a, b) == IF a < b THEN a ELSE b

\* data[:n] of Python: the first n elements, fewer when the list is shorter.
Prefix(data, n) == SubSeq(data, 1, Min(n, Len(data)))

\* data[lo:hi] of Python for 0 <= lo, 0 <= hi: clipped to the list.
Slice(data, lo, hi) == SubSeq(data, lo + 1, Min(hi, Len(data)))

\* the raw content of a structured-sample file f holding n samples
RawSamples(f, n) == [i \in 1..n |-> <<f, i - 1>>]

\* a plausible slip: the padding repeats the end of the data instead of its start
AlignDataToStepSizeTail(data, step_size) ==
    LET target_length == ((Len(data) + step_size - 1) \div step_size) * step_size
        padding_length == target_length - Len(data)
    IN  IF padding_length > 0
        THEN data \o SubSeq(data, Len(data) - Min(padding_length, Len(data)) + 1, Len(data))
        ELSE data

\* a plausible slip: the target is the multiple after the length, also when the
\* length is a multiple already
AlignDataToStepSizeNextMultiple(data, step_size) ==
    LET target_length == (Len(data) \div step_size + 1) * step_size
        padding_length == target_length - Len(data)
    IN  IF padding_length > 0 THEN data \o Prefix(data, padding_length) ELSE data

\* align_data_to_step_size: cyclic padding to the next multiple of step_size
AlignDataToStepSize(data, step_size) ==
    LET target_length == ((Len(data) + step_size - 1) \div step_size) * step_size
        padding_length == target_length - Len(data)
    IN  IF padding_length > 0 THEN data \o Prefix(data, padding_length) ELSE data

\* samples[start::step] of Python, walked the way a strided slice is
RECURSIVE StridedFrom(_, _, _)
StridedFrom(samples, start, step) ==
    IF start >= Len(samples) THEN <<>>
    ELSE <<samples[start + 1]>> \o StridedFrom(samples, start + step, step)

\* a plausible slip: the shard is a contiguous chunk instead of a stride
LimitSamplesToRankContiguous(samples, rank, world_size) ==
    IF world_size > 1
    THEN Slice(samples, rank * (Len(samples) \div world_size),
               (rank + 1) * (Len(samples) \div world_size))
    ELSE samples

\* limit_samples_to_rank
LimitSamplesToRank(samples, rank, world_size) ==
    IF world_size > 1 THEN StridedFrom(samples, rank, world_size) ELSE samples

\* align_and_limit_to_rank on a list of samples; <<>> stands for None
AlignAndLimitToRank(new_data, rank, world_size) ==
    IF world_size > Len(new_data) THEN <<>>
    ELSE LimitSamplesToRank(AlignDataToStepSize(new_data, world_size), rank, world_size)

\* sorted() of Python on a list of file names; the names are integers whose order
\* is the lexicographic order of the strings they stand for
RECURSIVE InsertSorted(_, _)
InsertSorted(x, s) ==
    IF s = <<>> THEN <<x>>
    ELSE IF x < Head(s) THEN <<x>> \o s
    ELSE <<Head(s)>> \o InsertSorted(x, Tail(s))

RECURSIVE SortedList(_)
SortedList(s) == IF s = <<>> THEN <<>> ELSE InsertSorted(Head(s), SortedList(Tail(s)))

\* the for loop of get_dataset_files, lines 44-46, over what glob returned: the
\* files with a supported extension whose name starts with the prefix of the split
RECURSIVE Discovered(_, _, _)
Discovered(listing, disk, train_split) ==
    IF listing = <<>> THEN <<>>
    ELSE LET f == Head(listing)
             rest == Discovered(Tail(listing), disk, train_split)
         IN  IF /\ disk[f].supported
                /\ disk[f].prefix \in (IF train_split THEN {"train", "both"} ELSE {"val", "both"})
             THEN <<f>> \o rest
             ELSE rest

\* a get_dataset_files that treats an empty validation split like an empty training split
GetDatasetFilesAlwaysRaising(cfg, train_split, disk, listing) ==
    LET explicit == IF train_split THEN cfg.dataset_train_files
                    ELSE cfg.dataset_validation_files
        dataset_files == IF explicit # <<>> THEN explicit
                         ELSE IF cfg.dataset THEN Discovered(listing, disk, train_split)
                         ELSE <<>>
    IN  [raised |-> dataset_files = <<>>, files |-> SortedList(dataset_files)]

\* get_dataset_files; cfg.dataset_train_files and cfg.dataset_validation_files are
\* the comma-separated lists already split (<<>> = not configured), cfg.dataset
\* says whether a dataset directory is configured, listing is what glob returns
GetDatasetFiles(cfg, train_split, disk, listing) ==
    LET explicit == IF train_split THEN cfg.dataset_train_files
                    ELSE cfg.dataset_validation_files
        dataset_files == IF explicit # <<>> THEN explicit
                         ELSE IF cfg.dataset THEN Discovered(listing, disk, train_split)
                         ELSE <<>>
    IN  IF dataset_files # <<>> THEN [raised |-> FALSE, files |-> SortedList(dataset_files)]
        ELSE IF train_split THEN [raised |-> TRUE, files |-> <<>>]
        ELSE [raised |-> FALSE, files |-> <<>>]

\* load_next_dataset in AllamoDataset.__init__ with an empty ledger: the first
\* file of the catalog that loads, 0 when none does (data stays None)
RECURSIVE FirstLoadable(_, _)
FirstLoadable(catalog, disk) ==
    IF catalog = <<>> THEN 0
    ELSE IF disk[Head(catalog)].loadable THEN Head(catalog)
    ELSE FirstLoadable(Tail(catalog), disk)

\* iter_num % (batch_size_max_iter / 100) == 0 in double precision, for
\* batch_size_max_iter > 0: the quotient is exact when batch_size_max_iter is a
\* multiple of 25 (a multiple of 1/4) and the remainder is then exact too; any other
\* quotient is rounded, and no iteration number but 0 is a multiple of the rounded value
OnCadence(iter_num, batch_size_max_iter) ==
    IF batch_size_max_iter % 25 = 0
    THEN (iter_num * 100) % batch_size_max_iter = 0
    ELSE iter_num = 0

\* an update_batch_size that grows the batch on every call
NextBatchSizeEveryCall(cfg, batch_size_max, batch_size, iter_num) ==
    IF cfg.batch_size_schedule /\ batch_size < batch_size_max
    THEN [raised |-> cfg.batch_size_max_iter = 0,
          batch_size |-> IF cfg.batch_size_max_iter = 0 THEN batch_size
                         ELSE Min(batch_size + 1, batch_size_max)]
    ELSE [raised |-> FALSE, batch_size |-> batch_size]

\* update_batch_size, lines 490-491: the new self.batch_size; raised = the
\* ZeroDivisionError of a modulo by 0.0
NextBatchSize(cfg, batch_size_max, batch_size, iter_num) ==
    IF cfg.batch_size_schedule /\ batch_size < batch_size_max
    THEN IF cfg.batch_size_max_iter = 0
         THEN [raised |-> TRUE, batch_size |-> batch_size]
         ELSE [raised |-> FALSE,
               batch_size |-> IF OnCadence(iter_num, cfg.batch_size_max_iter)
                              THEN Min(batch_size + 1, batch_size_max)
                              ELSE batch_size]
    ELSE [raised |-> FALSE, batch_size |-> batch_size]

\* a field of n real tokens (or n weights 1)
Tokens(n) == [i \in 1..n |-> "tok"]

\* torch.cat([field, torch.full((n - len(field),), v)]) and F.pad(field, (0, n - len(field)), value=v)
PadTo(field, n, v) == field \o [i \in 1..(n - Len(field)) |-> v]

\* field[1:] of Python
Rest(field) == IF field = <<>> THEN <<>> ELSE Tail(field)

\* torch.where(target_ids == ignore_index, 0, 1)
WeightsOf(target_ids) == [i \in 1..Len(target_ids) |-> IF target_ids[i] = "ign" THEN 0 ELSE 1]

\* the target_ids of a raw sample: ignore_index at the positions ign_at
TargetTokens(raw) ==
    [i \in 1..raw.target_len |-> IF i \in raw.ign_at THEN "ign" ELSE "tok"]

\* the target_weights a raw sample brings: 0 at the positions zero_at, 1 elsewhere
SuppliedWeights(raw) ==
    [i \in 1..raw.weights_len |-> IF i \in raw.zero_at THEN 0 ELSE 1]

\* pad_or_truncate_to_block_size, lines 172-176 (and 178-182, 185-189): one field
PadOrTruncateField(field, block_size, pad, v) ==
    IF Len(field) >= block_size + 1 THEN Prefix(field, block_size)
    ELSE IF pad /\ Len(field) < block_size THEN PadTo(field, block_size, v)
    ELSE field

NoFields == [raised |-> FALSE, input_ids |-> <<>>, target_ids |-> <<>>,
             has_weights |-> FALSE, target_weights |-> <<>>]

\* pad_or_truncate_to_block_size on a dict sample of a .pt list, lines 155-193
PadOrTruncateDict(raw, cfg) ==
    IF raw.input_len < 0 THEN [NoFields EXCEPT !.raised = TRUE]
    ELSE
    LET input0 == Tokens(raw.input_len)
        target0 == IF raw.target_len < 0 THEN Rest(input0) ELSE TargetTokens(raw)
        weights0 == IF raw.weights_len < 0 THEN WeightsOf(target0) ELSE SuppliedWeights(raw)
        input_ids == PadOrTruncateField(input0, cfg.block_size, cfg.pad, "ign")
        target_ids == PadOrTruncateField(target0, cfg.block_size, cfg.pad, "ign")
        target_weights == PadOrTruncateField(weights0, cfg.block_size, cfg.pad, 0)
    IN  [raised |-> \/ Len(input_ids) # Len(target_ids)
                    \/ cfg.weighted_loss /\ Len(input_ids) # Len(target_weights),
         input_ids |-> input_ids, target_ids |-> target_ids,
         has_weights |-> cfg.weighted_loss,
         target_weights |-> IF cfg.weighted_loss THEN target_weights ELSE <<>>]

\* pad_or_truncate_to_block_size on a tensor sample of a .pt list, lines 195-205
PadOrTruncateTensor(raw, cfg) ==
    LET sample_size == cfg.block_size + 1
        cut == Prefix(Tokens(raw.input_len), sample_size)
        whole == IF cfg.pad /\ Len(cut) < sample_size THEN PadTo(cut, sample_size, "ign") ELSE cut
        input_ids == Prefix(whole, Len(whole) - 1)
        target_ids == Rest(whole)
    IN  [raised |-> FALSE,
         input_ids |-> [i \in 1..Len(input_ids) |->
                           IF input_ids[i] = "ign" THEN "pad" ELSE input_ids[i]],
         target_ids |-> target_ids,
         has_weights |-> TRUE, target_weights |-> WeightsOf(target_ids)]

\* prepare_alm_sample, lines 248-264, on a sample of an .alm file
PrepareAlmSample(raw, cfg) ==
    IF raw.input_len < 0 \/ raw.target_len < 0 THEN [NoFields EXCEPT !.raised = TRUE]
    ELSE
    LET input0 == Tokens(raw.input_len)
        target0 == TargetTokens(raw)
        weights0 == IF raw.weights_len < 0 THEN WeightsOf(target0) ELSE SuppliedWeights(raw)
        grow(field, v) == IF cfg.pad /\ Len(field) < cfg.block_size
                          THEN PadTo(field, cfg.block_size, v) ELSE field
    IN  [raised |-> FALSE,
         input_ids |-> grow(input0, "pad"),
         target_ids |-> grow(target0, "ign"),
         has_weights |-> cfg.weighted_loss,
         target_weights |-> IF cfg.weighted_loss THEN grow(weights0, 0) ELSE <<>>]

\* list(range(a, b)) of Python
RangeList(a, b) == [i \in 1..(b - a) |-> a + i - 1]

RECURSIVE SumOf(_)
SumOf(lens) == IF lens = <<>> THEN 0 ELSE Head(lens) + SumOf(Tail(lens))

\* prepare_alm_sample, lines 270-272: the positions of the packed sub-sequences
RECURSIVE SeqPositions(_)
SeqPositions(seq_lens) ==
    IF seq_lens = <<>> THEN <<>>
    ELSE RangeList(0, Head(seq_lens)) \o SeqPositions(Tail(seq_lens))

\* positions of the padding that start again at 0
PadPositionsFromZero(sample_input_pos, num_pad) == RangeList(0, num_pad)

\* prepare_alm_sample, lines 279-281: the positions of the padding go on from the
\* last position (sample_input_pos[-1] is read from a non-empty list)
PadPositions(sample_input_pos, num_pad) ==
    LET new_pos == sample_input_pos[Len(sample_input_pos)] + 1
    IN  RangeList(new_pos, new_pos + num_pad)

\* the block that holds row i (from 0) of the block-diagonal matrix, and the row in it
RECURSIVE Locate(_, _, _)
Locate(blocks, i, b) ==
    IF i < Head(blocks).n THEN <<b, i>>
    ELSE Locate(Tail(blocks), i - Head(blocks).n, b + 1)

\* torch.block_diag of torch.tril(torch.ones(n, n)) and torch.eye(n, n) blocks, as
\* the set of its true entries (row, column), both from 0
BlockDiag(blocks) ==
    LET n == SumOf([b \in 1..Len(blocks) |-> blocks[b].n])
    IN  {e \in (0..(n - 1)) \X (0..(n - 1)) :
            LET r == Locate(blocks, e[1], 1)
                c == Locate(blocks, e[2], 1)
            IN  /\ r[1] = c[1]
                /\ IF blocks[r[1]].eye THEN c[2] = r[2] ELSE c[2] <= r[2]}

NoPack == [raised |-> FALSE, input_pos |-> <<>>, size |-> 0, attn_mask |-> {}]

\* prepare_alm_sample, lines 266-283, for a sample with "seq_lens" whose input_ids
\* has length entries after the padding
PackSample(seq_lens, length) ==
    LET total_seq_len == SumOf(seq_lens)
        sample_input_pos == SeqPositions(seq_lens)
        tril == [b \in 1..Len(seq_lens) |-> [n |-> seq_lens[b], eye |-> FALSE]]
        num_pad == length - total_seq_len
    IN  IF total_seq_len < length
        THEN IF sample_input_pos = <<>>
             THEN [NoPack EXCEPT !.raised = TRUE]
             ELSE [raised |-> FALSE,
                   input_pos |-> sample_input_pos \o PadPositions(sample_input_pos, num_pad),
                   size |-> length,
                   attn_mask |-> BlockDiag(Append(tril, [n |-> num_pad, eye |-> TRUE]))]
        ELSE [raised |-> FALSE, input_pos |-> sample_input_pos, size |-> total_seq_len,
              attn_mask |-> BlockDiag(tril)]

\* the samples prepare_samples can be given: a tensor, or a dict that carries any
\* of the optional fields
BatchSamples ==
    [dict : {TRUE}, target_weights : BOOLEAN, attn_mask : BOOLEAN, input_pos : BOOLEAN]
    \cup {[dict |-> FALSE, target_weights |-> FALSE, attn_mask |-> FALSE,
            input_pos |-> FALSE]}

NoBatch == [raised |-> FALSE, target_weights |-> FALSE, attn_mask |-> FALSE,
            input_pos |-> FALSE]

\* prepare_samples, lines 390-401, for a training type other than dpo and samples
\* whose fields have equal shapes: samples[0] decides the branch and which optional
\* fields are stacked; reading a field a sample lacks raises (KeyError), and so does
\* sample['input_ids'] on a tensor and sample[:-1] on a dict
PrepareSamples(samples) ==
    LET first_sample == samples[1]
        every(f) == \A k \in 1..Len(samples) : f[k]
        carry(name) == [k \in 1..Len(samples) |-> samples[k][name]]
    IN  IF first_sample.dict
        THEN [raised |-> \/ ~every(carry("dict"))
                         \/ first_sample.target_weights /\ ~every(carry("target_weights"))
                         \/ first_sample.attn_mask /\ ~every(carry("attn_mask"))
                         \/ first_sample.input_pos /\ ~every(carry("input_pos")),
              target_weights |-> first_sample.target_weights,
              attn_mask |-> first_sample.attn_mask,
              input_pos |-> first_sample.input_pos]
        ELSE [NoBatch EXCEPT !.raised = \E k \in 1..Len(samples) : samples[k].dict]

\* what a structured sample becomes: pad_or_truncate_to_block_size when a .pt list
\* is loaded, prepare_alm_sample when a sample of an .alm file is read
MaterializeSample(raw, cfg) ==
    IF raw.format = "alm" THEN PrepareAlmSample(raw, cfg)
    ELSE IF raw.format = "pt_dict" THEN PadOrTruncateDict(raw, cfg)
    ELSE PadOrTruncateTensor(raw, cfg)

\* transform_continuous_data_to_samples: consecutive chunks of sample_size tokens,
\* the last one shorter when the length is not a multiple
TransformContinuousDataToSamples(data, sample_size) ==
    [k \in 1..((Len(data) + sample_size - 1) \div sample_size) |->
        SubSeq(data, (k - 1) * sample_size + 1, Min(k * sample_size, Len(data)))]

\* the tokens of a continuous file f: token i of f is <<f, i>>
RawTokens(f, n) == [i \in 1..n |-> <<f, i - 1>>]

\* a loading of continuous data with no minimum length: a short stream is padded too
LoadContinuousNoMinimum(f, n, env) ==
    [raised |-> FALSE, warned |-> FALSE,
     data |-> LimitSamplesToRank(
                  TransformContinuousDataToSamples(
                      AlignDataToStepSize(RawTokens(f, n), env.world_size * (env.block_size + 1)),
                      env.block_size + 1),
                  env.rank, env.world_size)]

\* load_dataset_file, lines 72-82 and 89-98: a tensor of n tokens
\* (warned = the 'does not have enough data' warning was logged)
LoadContinuous(f, n, env) ==
    LET sample_size == env.block_size + 1
        step_size == env.world_size * sample_size
    IN  IF step_size > n
        THEN [raised |-> FALSE, data |-> <<>>, warned |-> TRUE]
        ELSE [raised |-> FALSE, warned |-> FALSE,
              data |-> LimitSamplesToRank(
                           TransformContinuousDataToSamples(
                               AlignDataToStepSize(RawTokens(f, n), step_size), sample_size),
                           env.rank, env.world_size)]

\* align_and_limit_to_rank on what torch.load or joblib.load returned
LoadStructured(f, file, env) ==
    IF file.kind = "list"
    THEN [raised |-> FALSE, warned |-> env.world_size > file.n,
          data |-> AlignAndLimitToRank(RawSamples(f, file.n), env.rank, env.world_size)]
    ELSE [raised |-> FALSE, data |-> <<>>, warned |-> FALSE]

\* a load_dataset_file that skips a file the training type does not admit
LoadDatasetFileLenient(f, file, env) ==
    IF file.ext = "bin" /\ env.training_type = "pre" THEN LoadContinuous(f, file.n, env)
    ELSE IF file.ext = "pt" /\ env.training_type # "dpo" /\ file.kind = "tensor"
         THEN LoadContinuous(f, file.n, env)
    ELSE IF file.ext = "pt" /\ env.training_type # "dpo" THEN LoadStructured(f, file, env)
    ELSE IF file.ext = "alm" THEN LoadStructured(f, file, env)
    ELSE [raised |-> FALSE, data |-> <<>>, warned |-> FALSE]

\* a load_dataset_file that raises on a file too short to load
LoadDatasetFileStrict(f, file, env) ==
    LET r == LoadDatasetFileLenient(f, file, env)
    IN  IF file.ext = "bin" /\ env.training_type # "pre"
        THEN [raised |-> TRUE, data |-> <<>>, warned |-> FALSE]
        ELSE IF file.ext = "pt" /\ env.training_type = "dpo"
        THEN [raised |-> TRUE, data |-> <<>>, warned |-> FALSE]
        ELSE [raised |-> r.warned, data |-> r.data, warned |-> FALSE]

\* load_dataset_file after the append to the ledger: what the file at catalog
\* position f gives; raised = a failed assertion, data = <<>> = return False
LoadDatasetFile(f, file, env) ==
    IF file.ext = "bin"
    THEN IF env.training_type # "pre"
         THEN [raised |-> TRUE, data |-> <<>>, warned |-> FALSE]
         ELSE LoadContinuous(f, file.n, env)
    ELSE IF file.ext = "pt"
    THEN IF env.training_type = "dpo"
         THEN [raised |-> TRUE, data |-> <<>>, warned |-> FALSE]
         ELSE IF file.kind = "tensor"
              THEN LoadContinuous(f, file.n, env)
              ELSE LoadStructured(f, file, env)
    ELSE IF file.ext = "alm"
    THEN LoadStructured(f, file, env)
    ELSE [raised |-> FALSE, data |-> <<>>, warned |-> FALSE]

\* ------------------------------------------------------------------- state
VARIABLES
    \* the environment of one training process
    world_size,          \* AllamoDataset.world_size
    rank,                \* AllamoDataset.rank
    files,               \* the corpus on disk: file name -> number of samples in it
    config,              \* the AllamoConfiguration fields the loader reads
    \* AllamoDataset (the training split)
    dataset_files,       \* the catalog, sorted
    processed_files,     \* the processed-files ledger
    data,                \* the samples of the loaded file kept by this rank; <<>> = None
    \* AllamoDataLoader
    epoch,
    dataset_offset,
    batch_size,
    buffer,              \* the prefetch slot; full = FALSE stands for None
    buffer_thread,       \* the last worker started; 0 = None
    buffer_lock,         \* 0 = free, w = held by worker w, -1 = held by the main thread
    workers,             \* worker slot -> [pc, lo, batch]: the threads running update_buffer
    \* the main thread: AllamoTrainer.train and the get_batch call it is in
    pc,
    samples,             \* the local list of get_batch
    first,               \* TRUE until the first get_batch of train() has returned
    iterated,            \* iter_num > start_iter
    current_epoch,       \* the local of train()
    X,                   \* the batch fetched and not yet trained on
    trained,             \* the samples the model weights have been trained on, in order
    ckpt,                \* the checkpoint files on disk
    resumes,             \* how many times a new process has resumed
    \* history of the running process
    hist,                \* the batches get_batch has returned, in order
    taken,               \* what the last get_batch_from_buffer found in the slot
    prevStart,           \* start offset of the batch before the last one, since the last rollover
    lastStart,           \* start offset of the last batch, since the last rollover
    attempted,           \* the files this process has passed to load_dataset_file, in
                         \* order, each with the epoch its attempt belongs to
    \* the sharding of one file across all ranks (specification ShardSpec)
    sh_world, sh_raw, sh_stage, sh_padded, sh_shards,
    \* AllamoDataset.__init__ over a catalog of typed files (specification LoadSpec)
    ld_env,              \* training_type, world_size, rank, block_size
    ld_files,            \* the catalog: position -> [ext, kind, n] of the file on disk
    ld_processed_files,  \* the ledger, as catalog positions
    ld_data,             \* the loaded data; <<>> = None
    ld_i,                \* how many catalog entries the for loop has gone past
    ld_state,            \* "loop", "loaded" (True), "exhausted" (False), "raised", "off"
    ld_warned,           \* the files a 'not enough data' warning was logged for
    \* AllamoDataLoader.load_datasets (specification FilesSpec)
    gf_config,           \* dataset_train_files, dataset_validation_files, dataset
    gf_disk,             \* file name -> [supported, prefix, loadable]
    gf_listing,          \* the files of the dataset directory in the order glob returns them
    gf_state,            \* "new", "train" (training dataset built), "done", "raised", "off"
    gf_train,            \* the training dataset: [dataset_files, data (file loaded, 0 = None)]
    gf_val,              \* the validation dataset built; data = -1: dropped, val_dataset is None
    gf_splits,           \* AllamoDataLoader.splits
    \* the batch-size schedule of AllamoDataLoader (specification ScheduleSpec)
    bs_config,           \* batch_size_schedule, batch_size, batch_size_initial, batch_size_max_iter
    bs_max,              \* config.batch_size_max as set by __init__; 0 = not set
    bs_batch_size,       \* self.batch_size
    bs_iter,             \* the iter_num of the last update_batch_size call; -1 = none yet
    bs_ret,              \* what the last call returned; 0 = nothing
    bs_state,            \* "run", "raised", "off"
    \* the materialization of one structured sample (specification SampleSpec)
    sm_config,           \* block_size, pad (pad_token_id >= 0), weighted_loss
    sm_raw,              \* the sample in its file: format, field lengths (-1 = field absent),
                         \* where target_ids is ignore_index, where target_weights is 0
    sm_out,              \* the materialized sample
    sm_state,            \* "raw", "done", "raised", "off"
    \* get_batch outside the cursor (specification EvalSpec)
    ev_seq_train,        \* config.dataset_seq_train
    ev_val,              \* the data of val_dataset; <<>> = val_dataset is None
    ev_call,             \* the arguments of the last such call and whether it has returned
    ev_batch,            \* the samples it returned
    \* the packing part of prepare_alm_sample (specification PackSpec)
    pk_seq_lens,         \* sample["seq_lens"]
    pk_len,              \* len(result['input_ids']) after the padding
    pk_out,              \* input_pos and attn_mask
    pk_state,            \* "raw", "done", "raised", "off"
    \* prepare_samples on one batch (specification CollateSpec)
    co_samples,          \* the samples: dict or tensor, and the optional fields they carry
    co_out,              \* the fields of the collated batch that are not None
    co_state             \* "new", "done", "raised", "off"

loaderVars == <<world_size, rank, files, config, dataset_files, processed_files, data,
                epoch, dataset_offset, batch_size, buffer, buffer_thread, buffer_lock,
                workers, pc, samples, first, iterated, current_epoch, X, trained, ckpt,
                resumes, hist, taken, prevStart, lastStart, attempted>>
shardVars == <<sh_world, sh_raw, sh_stage, sh_padded, sh_shards>>
loadVars == <<ld_env, ld_files, ld_processed_files, ld_data, ld_i, ld_state, ld_warned>>
filesVars == <<gf_config, gf_disk, gf_listing, gf_state, gf_train, gf_val, gf_splits>>
schedVars == <<bs_config, bs_max, bs_batch_size, bs_iter, bs_ret, bs_state>>
sampleVars == <<sm_config, sm_raw, sm_out, sm_state>>
evalVars == <<ev_seq_train, ev_val, ev_call, ev_batch>>
packVars == <<pk_seq_lens, pk_len, pk_out, pk_state>>
collateVars == <<co_samples, co_out, co_state>>
unitVars == <<loadVars, filesVars, schedVars, sampleVars, evalVars, packVars, collateVars>>
offVars == <<shardVars, unitVars>>
vars == <<loaderVars, shardVars, unitVars>>

NoSample == <<0, 0>>
NoCall == [split |-> "none", random_samples |-> FALSE, done |-> FALSE]

\* the dataset get_batch reads for a split, lines 451-454
SplitDataset(split, train, val) == IF split = "train" \/ val = <<>> THEN train ELSE val

\* a test of the sequential path that does not look at random_samples
UsesCursorWhateverSampling(split, random_samples, seq_train) ==
    split = "train" /\ seq_train

\* get_batch, line 456: the call takes the sequential path, which moves the cursor
UsesCursor(split, random_samples, seq_train) ==
    random_samples = FALSE /\ split = "train" /\ seq_train
NoBuffer == [full |-> FALSE, batch |-> <<>>, offset |-> 0, lo |-> 0]
NoTake == [full |-> FALSE, pre |-> 0, batch |-> <<>>, offset |-> 0]
NoCkpt == [saved |-> FALSE, processed_files |-> <<>>, dataset_offset |-> 0, epoch |-> 0,
           trained |-> <<>>, data |-> <<>>]
IdleWorker == [pc |-> "idle", lo |-> 0, batch |-> <<>>]

InSeq(x, s) == \E i \in 1..Len(s) : s[i] = x

\* ------------------------------------------------------------ AllamoDataset

\* what load_dataset_file makes of structured-sample file f for this rank
FileData(f) == AlignAndLimitToRank(RawSamples(f, files[f]), rank, world_size)

\* a loop that appends to the ledger only the file that loads
RECURSIVE LoadFromForgetSkipped(_, _)
LoadFromForgetSkipped(i, pf) ==
    IF i > Len(dataset_files) THEN [processed_files |-> pf, data |-> <<>>, ok |-> FALSE]
    ELSE LET f == dataset_files[i]
         IN  IF InSeq(f, pf) THEN LoadFromForgetSkipped(i + 1, pf)
             ELSE IF FileData(f) # <<>>
                  THEN [processed_files |-> Append(pf, f), data |-> FileData(f), ok |-> TRUE]
                  ELSE LoadFromForgetSkipped(i + 1, pf)

\* the for loop of load_next_dataset from catalog position i on, with ledger pf:
\* every file not in the ledger is appended to it and tried; the first that loads wins
RECURSIVE LoadFrom(_, _)
LoadFrom(i, pf) ==
    IF i > Len(dataset_files) THEN [processed_files |-> pf, data |-> <<>>, ok |-> FALSE]
    ELSE LET f == dataset_files[i]
         IN  IF InSeq(f, pf) THEN LoadFrom(i + 1, pf)
             ELSE IF FileData(f) # <<>>
                  THEN [processed_files |-> Append(pf, f), data |-> FileData(f), ok |-> TRUE]
                  ELSE LoadFrom(i + 1, Append(pf, f))

\* a load_next_dataset that appends to the ledger only the file that loads
LoadNextDatasetForgetSkipped(pf) == LoadFromForgetSkipped(1, pf)

\* load_next_dataset
LoadNextDataset(pf) == LoadFrom(1, pf)

\* the files the for loop of load_next_dataset passes to load_dataset_file from
\* catalog position i on, with ledger pf (lines 61-64): the files not in the ledger,
\* up to the first that loads
RECURSIVE Attempts(_, _)
Attempts(i, pf) ==
    IF i > Len(dataset_files) THEN <<>>
    ELSE LET f == dataset_files[i]
         IN  IF InSeq(f, pf) THEN Attempts(i + 1, pf)
             ELSE IF FileData(f) # <<>> THEN <<f>>
                  ELSE <<f>> \o Attempts(i + 1, Append(pf, f))

\* the attempts of a list of files, each in epoch ep
InEpoch(list, ep) == [k \in 1..Len(list) |-> <<ep, list[k]>>]

\* the attempts of AllamoDataset.__init__: they belong to epoch 0
NewDatasetAttempts(cfg) ==
    InEpoch(Attempts(1, Prefix(dataset_files, cfg.dataset_train_processed_files_count)), 0)

\* AllamoDataset.__init__ for the training split
NewDataset(cfg) ==
    LoadNextDataset(Prefix(dataset_files, cfg.dataset_train_processed_files_count))

\* __len__
DatasetLen == Len(data)

\* the file whose data is loaded, 0 when there is none
LoadedFileOf(d) == IF d = <<>> THEN 0 ELSE d[1][1]
LoadedFile == LoadedFileOf(data)

\* --------------------------------------------------------- AllamoDataLoader

\* a reload_dataset that counts an epoch for every file it moves to
ReloadDatasetResultEpochPerFile(pf, d, ep, off) ==
    LET nxt == LoadNextDataset(IF LoadNextDataset(pf).ok THEN pf ELSE <<>>)
    IN  [processed_files |-> nxt.processed_files, data |-> nxt.data,
         dataset_offset |-> 0, epoch |-> ep + 1, ok |-> nxt.ok]

\* a reload_dataset that leaves the cursor where it was when it moves to the next file
ReloadDatasetResultKeepOffset(pf, d, ep, off) ==
    LET nxt == LoadNextDataset(pf)
    IN  IF Len(dataset_files) > 1 /\ nxt.ok
        THEN [processed_files |-> nxt.processed_files, data |-> nxt.data,
              dataset_offset |-> off, epoch |-> ep, ok |-> TRUE]
        ELSE LET again == LoadNextDataset(<<>>)
             IN  [processed_files |-> again.processed_files, data |-> again.data,
                  dataset_offset |-> 0, epoch |-> ep + 1, ok |-> again.ok]

\* a reload_dataset that puts the cursor past the first sample of what it moves to
ReloadDatasetResultSkipFirst(pf, d, ep, off) ==
    LET nxt == LoadNextDataset(pf)
    IN  IF Len(dataset_files) > 1 /\ nxt.ok
        THEN [processed_files |-> nxt.processed_files, data |-> nxt.data,
              dataset_offset |-> 1, epoch |-> ep, ok |-> TRUE]
        ELSE LET again == LoadNextDataset(<<>>)
             IN  [processed_files |-> again.processed_files, data |-> again.data,
                  dataset_offset |-> 1, epoch |-> ep + 1, ok |-> again.ok]

\* reload_dataset, called with ledger pf, data d, epoch ep and offset off.
\* ok = FALSE is the failed assertion ('unable to reload dataset').
ReloadDatasetResult(pf, d, ep, off) ==
    IF Len(dataset_files) > 1
    THEN LET nxt == LoadNextDataset(pf)
         IN  IF nxt.ok
             THEN [processed_files |-> nxt.processed_files, data |-> nxt.data,
                   dataset_offset |-> 0, epoch |-> ep, ok |-> TRUE]
             ELSE LET again == LoadNextDataset(<<>>)
                  IN  IF again.ok
                      THEN [processed_files |-> again.processed_files, data |-> again.data,
                            dataset_offset |-> 0, epoch |-> ep + 1, ok |-> TRUE]
                      ELSE [processed_files |-> again.processed_files, data |-> <<>>,
                            dataset_offset |-> off, epoch |-> ep, ok |-> FALSE]
    ELSE [processed_files |-> pf, data |-> d, dataset_offset |-> 0, epoch |-> ep + 1,
          ok |-> TRUE]

\* the attempts of reload_dataset, called with ledger pf in epoch ep: those of the
\* first load_next_dataset belong to ep, those made after the ledger was cleared
\* (lines 483-484) to the epoch that begins there
ReloadDatasetAttempts(pf, ep) ==
    IF Len(dataset_files) > 1
    THEN IF LoadNextDataset(pf).ok
         THEN InEpoch(Attempts(1, pf), ep)
         ELSE InEpoch(Attempts(1, pf), ep) \o InEpoch(Attempts(1, <<>>), ep + 1)
    ELSE <<>>

Alive(w) == workers[w].pc # "idle"
FreeSlot == CHOOSE w \in 1..MaxWorkers :
                /\ ~Alive(w)
                /\ \A v \in 1..(w - 1) : Alive(v)

mainVars == <<pc, samples, first, iterated, current_epoch, X, trained, ckpt, resumes>>
envVars == <<world_size, rank, files, config, dataset_files>>
datasetVars == <<processed_files, data, attempted>>
orderVars == <<prevStart, lastStart>>

\* get_batch, lines 457-458 and get_batch_from_buffer up to its assertion: the slot
\* is taken under the lock, the cursor adopts the stored offset
GetBatchFromBuffer ==
    /\ pc = "call"
    /\ Len(hist) < MaxCalls
    /\ config.dataset_buffer /\ buffer.full
    /\ buffer_lock = 0
    /\ samples' = buffer.batch
    /\ dataset_offset' = buffer.offset
    /\ taken' = [full |-> TRUE, pre |-> dataset_offset, batch |-> buffer.batch,
                 offset |-> buffer.offset]
    /\ prevStart' = lastStart
    /\ lastStart' = buffer.lo
    /\ pc' = IF buffer_thread # 0 /\ Alive(buffer_thread) THEN "failed" ELSE "reload_buffer"
    /\ UNCHANGED <<envVars, datasetVars, epoch, batch_size, buffer, buffer_thread,
                   buffer_lock, workers, first, iterated, current_epoch, X, trained, ckpt,
                   resumes, hist, offVars>>

\* get_batch, lines 459-461: a full batch is left in the loaded file
GetBatchSlice ==
    /\ pc = "call"
    /\ Len(hist) < MaxCalls
    /\ ~(config.dataset_buffer /\ buffer.full)
    /\ dataset_offset + batch_size <= DatasetLen
    /\ samples' = Slice(data, dataset_offset, dataset_offset + batch_size)
    /\ dataset_offset' = dataset_offset + batch_size
    /\ prevStart' = lastStart
    /\ lastStart' = dataset_offset
    /\ pc' = "reload_buffer"
    /\ UNCHANGED <<envVars, datasetVars, epoch, batch_size, buffer, buffer_thread,
                   buffer_lock, workers, first, iterated, current_epoch, X, trained, ckpt,
                   resumes, hist, taken, offVars>>

\* get_batch, lines 462-464: fewer than batch_size samples are left
GetBatchOneByOne ==
    /\ pc = "call"
    /\ Len(hist) < MaxCalls
    /\ ~(config.dataset_buffer /\ buffer.full)
    /\ dataset_offset + batch_size > DatasetLen
    /\ samples' = <<>>
    /\ pc' = "loop"
    /\ UNCHANGED <<envVars, datasetVars, epoch, dataset_offset, batch_size, buffer,
                   buffer_thread, buffer_lock, workers, first, iterated, current_epoch, X,
                   trained, ckpt, resumes, hist, taken, orderVars, offVars>>

\* get_batch, lines 465-466: the cursor is at the end of the loaded file
ReloadDataset ==
    /\ pc = "loop"
    /\ dataset_offset >= DatasetLen
    /\ LET r == ReloadDatasetResult(processed_files, data, epoch, dataset_offset)
       IN  /\ processed_files' = r.processed_files
           /\ data' = r.data
           /\ dataset_offset' = r.dataset_offset
           /\ epoch' = r.epoch
           /\ pc' = IF r.ok THEN "fetch" ELSE "failed"
    /\ attempted' = attempted \o ReloadDatasetAttempts(processed_files, epoch)
    /\ prevStart' = -1
    /\ lastStart' = -1
    /\ UNCHANGED <<envVars, batch_size, buffer, buffer_thread, buffer_lock, workers,
                   samples, first, iterated, current_epoch, X, trained, ckpt, resumes,
                   hist, taken, offVars>>

\* get_batch, lines 467-468: one sample is drawn; __getitem__ gives None past the end
FetchSample ==
    /\ \/ pc = "loop" /\ dataset_offset < DatasetLen
       \/ pc = "fetch"
    /\ samples' = Append(samples, IF dataset_offset < DatasetLen
                                  THEN data[dataset_offset + 1] ELSE NoSample)
    /\ dataset_offset' = dataset_offset + 1
    /\ IF samples = <<>> \/ lastStart = -1
       THEN prevStart' = lastStart /\ lastStart' = dataset_offset
       ELSE UNCHANGED orderVars
    /\ pc' = IF Len(samples) + 1 >= batch_size THEN "reload_buffer" ELSE "loop"
    /\ UNCHANGED <<envVars, datasetVars, epoch, batch_size, buffer, buffer_thread,
                   buffer_lock, workers, first, iterated, current_epoch, X, trained, ckpt,
                   resumes, hist, taken, offVars>>

\* reload_buffer, then the return of get_batch: prepare_samples raises on a None
\* sample; the batch goes to the training loop, at its head or inside an iteration
ReloadBuffer ==
    /\ pc = "reload_buffer"
    /\ buffer' = NoBuffer
    /\ IF dataset_offset + batch_size <= DatasetLen
       THEN /\ \E w \in 1..MaxWorkers : ~Alive(w)
            /\ workers' = [workers EXCEPT ![FreeSlot] = [IdleWorker EXCEPT !.pc = "start"]]
            /\ buffer_thread' = FreeSlot
       ELSE /\ buffer_thread' = 0
            /\ UNCHANGED workers
    /\ samples' = <<>>
    /\ taken' = NoTake
    /\ IF InSeq(NoSample, samples)
       THEN /\ pc' = "failed"
            /\ UNCHANGED <<hist, X, first, iterated, current_epoch>>
       ELSE /\ hist' = Append(hist, samples)
            /\ X' = samples
            /\ first' = FALSE
            /\ IF first
               THEN pc' = "head" /\ current_epoch' = epoch /\ UNCHANGED iterated
               ELSE /\ \E nxt \in {"micro", "head"} :
                        pc' = nxt /\ iterated' = (iterated \/ nxt = "head")
                    /\ UNCHANGED current_epoch
    /\ UNCHANGED <<envVars, datasetVars, epoch, dataset_offset, batch_size, buffer_lock,
                   trained, ckpt, resumes, orderVars, offVars>>

\* get_batch(split, random_samples) from its entry: the dataset is picked, then line
\* 456 decides. On the sequential path the call goes on as the steps above, from
\* "call". Otherwise batch_size indices are drawn over the dataset, with replacement,
\* and the call returns their samples; torch.randint raises over an empty dataset.
GetBatchEntry(split, random_samples) ==
    LET dataset == SplitDataset(split, data, ev_val)
    IN  IF UsesCursor(split, random_samples, ev_seq_train)
        THEN /\ pc' = "call"
             /\ ev_call' = [split |-> split, random_samples |-> random_samples,
                            done |-> FALSE]
             /\ ev_batch' = <<>>
        ELSE /\ ev_call' = [split |-> split, random_samples |-> random_samples,
                            done |-> TRUE]
             /\ IF dataset = <<>>
                THEN ev_batch' = <<>> /\ pc' = "failed"
                ELSE /\ \E idx_batch \in [1..batch_size -> 1..Len(dataset)] :
                          ev_batch' = [k \in 1..batch_size |-> dataset[idx_batch[k]]]
                     /\ pc' = pc

\* the callers of get_batch: the training fetch (train.py 264, 364), which is on the
\* sequential path unless training is not sequential, and the calls made at the head
\* of an iteration, with random_samples (estimate_loss, train.py 220) or for the
\* validation split
GetBatchCall ==
    /\ \E split \in {"train", "val"}, random_samples \in BOOLEAN :
          /\ \/ pc = "call" /\ split = "train" /\ ~random_samples
             \/ pc = "head" /\ (random_samples \/ split = "val")
          /\ GetBatchEntry(split, random_samples)
    /\ UNCHANGED <<envVars, datasetVars, epoch, dataset_offset, batch_size, buffer,
                   buffer_thread, buffer_lock, workers, samples, first, iterated,
                   current_epoch, X, trained, ckpt, resumes, hist, taken, orderVars,
                   shardVars, loadVars, filesVars, schedVars, sampleVars, packVars,
                   collateVars, ev_seq_train, ev_val>>

\* ------------------------------------------- the worker thread: update_buffer

workerFrame == <<envVars, datasetVars, epoch, dataset_offset, batch_size, buffer_thread,
                 mainVars, hist, taken, orderVars, offVars>>

\* with self.buffer_lock, and the first read of self.dataset_offset: the lower
\* end of the slice
WorkerAcquire(w) ==
    /\ workers[w].pc = "start"
    /\ buffer_lock = 0
    /\ buffer_lock' = w
    /\ workers' = [workers EXCEPT ![w].pc = "hi", ![w].lo = dataset_offset]
    /\ UNCHANGED <<workerFrame, buffer>>

\* the second read, the slice and prepare_samples, which raises on an empty list
\* (and the slice raises when no data is loaded): the thread ends, the lock is released
WorkerSlice(w) ==
    /\ workers[w].pc = "hi"
    /\ LET b == Slice(data, workers[w].lo, dataset_offset + batch_size)
       IN  IF b = <<>>
           THEN /\ workers' = [workers EXCEPT ![w] = IdleWorker]
                /\ buffer_lock' = 0
           ELSE /\ workers' = [workers EXCEPT ![w].pc = "offset", ![w].batch = b]
                /\ UNCHANGED buffer_lock
    /\ UNCHANGED <<workerFrame, buffer>>

\* the third read, "offset": dataset_offset + batch_size; the slot is replaced, the
\* with block ends: the lock is released and the thread is over
WorkerPublish(w) ==
    /\ workers[w].pc = "offset"
    /\ buffer' = [full |-> TRUE, batch |-> workers[w].batch,
                  offset |-> dataset_offset + batch_size, lo |-> workers[w].lo]
    /\ buffer_lock' = 0
    /\ workers' = [workers EXCEPT ![w] = IdleWorker]
    /\ UNCHANGED workerFrame

\* ------------------------------- get_batch('train') without a prefetch worker

\* get_batch, lines 464-468, n samples still to draw: the loader state r (ledger,
\* data, offset, epoch) and the samples drawn; ok = FALSE when reload_dataset fails
\* its assertion or a sample is None
RECURSIVE DrawOneByOne(_, _, _)
DrawOneByOne(r, drawn, n) ==
    IF n = 0 THEN [state |-> r, batch |-> drawn]
    ELSE LET r1 == IF r.dataset_offset >= Len(r.data)
                   THEN ReloadDatasetResult(r.processed_files, r.data, r.epoch,
                                            r.dataset_offset)
                   ELSE r
         IN  IF ~r1.ok \/ r1.dataset_offset >= Len(r1.data)
             THEN [state |-> [r1 EXCEPT !.ok = FALSE], batch |-> drawn]
             ELSE DrawOneByOne([r1 EXCEPT !.dataset_offset = @ + 1],
                               Append(drawn, r1.data[r1.dataset_offset + 1]), n - 1)

\* get_batch, lines 459-468, as one function of the loader state
SequentialGetBatch(r) ==
    IF r.dataset_offset + config.batch_size <= Len(r.data)
    THEN [state |-> [r EXCEPT !.dataset_offset = @ + config.batch_size],
          batch |-> Slice(r.data, r.dataset_offset, r.dataset_offset + config.batch_size)]
    ELSE DrawOneByOne(r, <<>>, config.batch_size)

\* the first k calls of a new process, each from the state the call before left:
\* the loader state and the batches returned, up to the first call that fails
RECURSIVE SequentialRun(_)
SequentialRun(k) ==
    IF k = 0
    THEN [state |-> [processed_files |-> NewDataset(config).processed_files,
                     data |-> NewDataset(config).data,
                     dataset_offset |-> config.dataset_seq_train_start,
                     epoch |-> 0, ok |-> TRUE],
          hist |-> <<>>]
    ELSE LET before == SequentialRun(k - 1)
             call == SequentialGetBatch(before.state)
         IN  IF ~before.state.ok THEN before
             ELSE IF call.state.ok
                  THEN [state |-> call.state, hist |-> Append(before.hist, call.batch)]
                  ELSE [state |-> call.state, hist |-> before.hist]

\* ------------------------------------------------------------ AllamoTrainer

trainFrame == <<envVars, datasetVars, epoch, dataset_offset, batch_size, buffer,
                buffer_thread, buffer_lock, workers, samples, hist, taken, orderVars,
                offVars>>

\* save_checkpoint: the resumable state of the loader, with the model weights
\* (what they have been trained on) and, for reference, the loaded data
Checkpoint ==
    [saved |-> TRUE, processed_files |-> processed_files,
     dataset_offset |-> dataset_offset, epoch |-> epoch, trained |-> trained,
     data |-> data]

\* train, lines 269-271: the epoch has advanced since train() began; the call
\* save_checkpoint(..., model_only=True) names a parameter save_checkpoint lacks
EpochCheckpoint ==
    /\ pc = "head"
    /\ current_epoch < epoch
    /\ pc' = "failed"
    /\ UNCHANGED <<trainFrame, first, iterated, current_epoch, X, trained, ckpt, resumes>>

\* train, lines 288-309: an evaluation iteration past the first writes a checkpoint
SaveCheckpoint ==
    /\ pc = "head"
    /\ current_epoch >= epoch
    /\ iterated
    /\ ckpt' = Checkpoint
    /\ pc' = "micro"
    /\ UNCHANGED <<trainFrame, first, iterated, current_epoch, X, trained, resumes>>

\* train: an iteration that writes no checkpoint
BeginIteration ==
    /\ pc = "head"
    /\ current_epoch >= epoch
    /\ pc' = "micro"
    /\ UNCHANGED <<trainFrame, first, iterated, current_epoch, X, trained, ckpt, resumes>>

\* train, lines 424-428: the loop is over, the final checkpoint is written
FinishTraining ==
    /\ pc = "head"
    /\ ckpt' = Checkpoint
    /\ pc' = "done"
    /\ UNCHANGED <<trainFrame, first, iterated, current_epoch, X, trained, resumes>>

\* train, lines 345-364: one micro step trains on X, then fetches the next batch
TrainStep ==
    /\ pc = "micro"
    /\ trained' = trained \o X
    /\ pc' = "call"
    /\ UNCHANGED <<trainFrame, first, iterated, current_epoch, X, ckpt, resumes>>

\* train, lines 269-281 and on to the micro steps, in a process with a batch-size
\* schedule that writes no checkpoint: update_batch_size(iter_num) at the head of
\* every iteration, iter_num counting the iterations from 0; a ZeroDivisionError
\* ends the process
RampIteration ==
    /\ pc = "head"
    /\ current_epoch >= epoch
    /\ bs_state = "run"
    /\ bs_iter < MaxIterNum
    /\ LET r == NextBatchSize(bs_config, bs_max, batch_size, bs_iter + 1)
       IN  /\ bs_iter' = bs_iter + 1
           /\ batch_size' = r.batch_size
           /\ bs_batch_size' = r.batch_size
           /\ bs_ret' = IF r.raised THEN 0 ELSE r.batch_size
           /\ bs_state' = IF r.raised THEN "raised" ELSE "run"
           /\ pc' = IF r.raised THEN "failed" ELSE "micro"
    /\ UNCHANGED <<envVars, datasetVars, epoch, dataset_offset, buffer, buffer_thread,
                   buffer_lock, workers, samples, first, iterated, current_epoch, X,
                   trained, ckpt, resumes, hist, taken, orderVars, bs_config, bs_max,
                   shardVars, loadVars, filesVars, sampleVars, evalVars, packVars,
                   collateVars>>

\* list.pop() on a non-empty list
Pop(s) == SubSeq(s, 1, Len(s) - 1)

\* a restore that does not remove the last entry of the saved ledger
RestoreDatasetNoPop(saved_files, ds) == LoadNextDataset(saved_files)

\* __init_training, lines 133-139, on the dataset ds of the new loader
RestoreDataset(saved_files, ds) ==
    IF Len(saved_files) > 0
    THEN LoadNextDataset(Pop(saved_files))
    ELSE [processed_files |-> saved_files, data |-> ds.data, ok |-> ds.ok]

\* the attempts of __init_training, lines 133-139: the load_next_dataset after the
\* pop, in the epoch of the checkpoint
RestoreDatasetAttempts(saved_files, ep) ==
    IF Len(saved_files) > 0 THEN InEpoch(Attempts(1, Pop(saved_files)), ep) ELSE <<>>

\* a new process resumes from the checkpoint on disk (the old one is gone):
\* AllamoTrainer.__init__ builds a loader, __init_training restores into it
Resume ==
    /\ ckpt.saved
    /\ resumes < MaxResumes
    /\ resumes' = resumes + 1
    /\ LET ds == RestoreDataset(ckpt.processed_files, NewDataset(config))
       IN  /\ processed_files' = ds.processed_files
           /\ data' = ds.data
    /\ attempted' = NewDatasetAttempts(config)
                        \o RestoreDatasetAttempts(ckpt.processed_files, ckpt.epoch)
    /\ dataset_offset' = ckpt.dataset_offset
    /\ epoch' = ckpt.epoch
    /\ batch_size' = config.batch_size
    /\ buffer' = NoBuffer
    /\ buffer_thread' = 0
    /\ buffer_lock' = 0
    /\ workers' = [w \in 1..MaxWorkers |-> IdleWorker]
    /\ pc' = "call"
    /\ samples' = <<>>
    /\ first' = TRUE
    /\ iterated' = FALSE
    /\ current_epoch' = 0
    /\ X' = <<>>
    /\ trained' = ckpt.trained
    /\ hist' = <<>>
    /\ taken' = NoTake
    /\ prevStart' = -1
    /\ lastStart' = -1
    /\ UNCHANGED <<envVars, ckpt, offVars>>

\* ------------------------------------- one file sharded across all the ranks

\* every sample of a list paired with its position in the list
TagPositions(list) == [i \in 1..Len(list) |-> <<i - 1, list[i]>>]

NoShard == [done |-> FALSE, tagged |-> <<>>, samples |-> <<>>]

\* align_and_limit_to_rank, lines 116-122: a list shorter than world_size is
\* refused, any other is padded to a multiple of world_size
ShardAlign ==
    /\ sh_stage = "raw"
    /\ IF sh_world > Len(sh_raw)
       THEN sh_stage' = "refused" /\ UNCHANGED sh_padded
       ELSE /\ sh_stage' = "aligned"
            /\ sh_padded' = AlignDataToStepSize(sh_raw, sh_world)
    /\ UNCHANGED <<loaderVars, unitVars, sh_world, sh_raw, sh_shards>>

\* align_and_limit_to_rank in the process of rank r: limit_samples_to_rank on the
\* padded list (once with the positions attached), and the whole operation
ShardLimit(r) ==
    /\ sh_stage = "aligned"
    /\ ~sh_shards[r].done
    /\ sh_shards' = [sh_shards EXCEPT ![r] =
                        [done |-> TRUE,
                         tagged |-> LimitSamplesToRank(TagPositions(sh_padded), r, sh_world),
                         samples |-> AlignAndLimitToRank(sh_raw, r, sh_world)]]
    /\ UNCHANGED <<loaderVars, unitVars, sh_world, sh_raw, sh_stage, sh_padded>>

\* ------------------------- AllamoDataset.__init__ over a catalog of typed files

\* what a file on disk can be: its extension, what reading it returns (a tensor of
\* n tokens, a list of n samples, or anything else) and n
FileKinds ==
    [ext : {"bin"}, kind : {"tensor"}, n : 0..MaxTokens]
    \cup [ext : {"pt"}, kind : {"tensor", "list"}, n : 0..MaxTokens]
    \cup [ext : {"alm"}, kind : {"list"}, n : 0..MaxTokens]
    \cup [ext : {"pt", "alm", "txt"}, kind : {"other"}, n : {0}]

\* load_next_dataset, one turn of its for loop: the next catalog entry, with the
\* whole of load_dataset_file when the entry is not in the ledger
LoadNextFile ==
    /\ ld_state = "loop"
    /\ ld_i < Len(ld_files)
    /\ LET f == ld_i + 1
           r == LoadDatasetFile(f, ld_files[f], ld_env)
       IN  IF InSeq(f, ld_processed_files)
           THEN /\ ld_i' = f
                /\ UNCHANGED <<ld_processed_files, ld_data, ld_state, ld_warned>>
           ELSE /\ ld_processed_files' = Append(ld_processed_files, f)
                /\ ld_warned' = IF r.warned THEN ld_warned \cup {f} ELSE ld_warned
                /\ ld_data' = r.data
                /\ IF r.raised THEN ld_state' = "raised" /\ UNCHANGED ld_i
                   ELSE IF r.data # <<>> THEN ld_state' = "loaded" /\ UNCHANGED ld_i
                   ELSE ld_state' = "loop" /\ ld_i' = f
    /\ UNCHANGED <<ld_env, ld_files, loaderVars, shardVars, filesVars, schedVars, sampleVars, evalVars,
                   packVars, collateVars>>

\* load_next_dataset, line 65: the loop found nothing to load
LoadExhausted ==
    /\ ld_state = "loop"
    /\ ld_i = Len(ld_files)
    /\ ld_state' = "exhausted"
    /\ UNCHANGED <<ld_env, ld_files, ld_processed_files, ld_data, ld_i, ld_warned,
                   loaderVars, shardVars, filesVars, schedVars, sampleVars, evalVars,
                   packVars, collateVars>>

\* ------------------------------------------- AllamoDataLoader.load_datasets

NoDataset == [dataset_files |-> <<>>, data |-> 0]

\* load_datasets, line 332: AllamoDataset(config, True, ...); get_dataset_files
\* raises when it finds no file
CreateTrainDataset ==
    /\ gf_state = "new"
    /\ LET r == GetDatasetFiles(gf_config, TRUE, gf_disk, gf_listing)
       IN  IF r.raised
           THEN gf_state' = "raised" /\ UNCHANGED <<gf_train, gf_splits>>
           ELSE /\ gf_state' = "train"
                /\ gf_train' = [dataset_files |-> r.files,
                                data |-> FirstLoadable(r.files, gf_disk)]
                /\ gf_splits' = <<"train">>
    /\ UNCHANGED <<gf_config, gf_disk, gf_listing, gf_val, loaderVars, shardVars, loadVars, schedVars, sampleVars, evalVars,
                   packVars, collateVars>>

\* load_datasets, lines 337-344: AllamoDataset(config, False, ...), kept when has_data()
CreateValDataset ==
    /\ gf_state = "train"
    /\ LET r == GetDatasetFiles(gf_config, FALSE, gf_disk, gf_listing)
           loaded == FirstLoadable(r.files, gf_disk)
       IN  IF r.raised
           THEN gf_state' = "raised" /\ UNCHANGED <<gf_val, gf_splits>>
           ELSE /\ gf_state' = "done"
                /\ IF loaded # 0
                   THEN /\ gf_val' = [dataset_files |-> r.files, data |-> loaded]
                        /\ gf_splits' = Append(gf_splits, "val")
                   ELSE /\ gf_val' = [dataset_files |-> r.files, data |-> -1]
                        /\ UNCHANGED gf_splits
    /\ UNCHANGED <<gf_config, gf_disk, gf_listing, gf_train, loaderVars, shardVars, loadVars, schedVars, sampleVars, evalVars,
                   packVars, collateVars>>

\* ------------------------------------- AllamoDataLoader.update_batch_size

\* update_batch_size(iter_num), called with any iteration number
UpdateBatchSize ==
    /\ bs_state = "run"
    /\ \E iter_num \in 0..MaxIterNum :
          LET r == NextBatchSize(bs_config, bs_max, bs_batch_size, iter_num)
          IN  /\ bs_iter' = iter_num
              /\ bs_batch_size' = r.batch_size
              /\ IF r.raised
                 THEN bs_state' = "raised" /\ bs_ret' = 0
                 ELSE bs_state' = "run" /\ bs_ret' = r.batch_size
    /\ UNCHANGED <<bs_config, bs_max, loaderVars, shardVars, loadVars, filesVars, sampleVars, evalVars,
                   packVars, collateVars>>

\* ---------------------------------- the materialization of structured samples

\* load_dataset_file line 100 (pad_or_truncate_to_block_size) for a sample of a .pt
\* list, __getitem__ lines 297-299 (prepare_alm_sample) for a sample of an .alm file
Materialize ==
    /\ sm_state = "raw"
    /\ LET r == MaterializeSample(sm_raw, sm_config)
       IN  /\ sm_out' = r
           /\ sm_state' = IF r.raised THEN "raised" ELSE "done"
    /\ UNCHANGED <<sm_config, sm_raw, loaderVars, shardVars, loadVars, filesVars, schedVars, evalVars,
                   packVars, collateVars>>

\* ----------------------------------------- the packing of a structured sample

\* prepare_alm_sample, lines 266-284
Pack ==
    /\ pk_state = "raw"
    /\ LET r == PackSample(pk_seq_lens, pk_len)
       IN  /\ pk_out' = r
           /\ pk_state' = IF r.raised THEN "raised" ELSE "done"
    /\ UNCHANGED <<pk_seq_lens, pk_len, loaderVars, shardVars, loadVars, filesVars,
                   schedVars, sampleVars, evalVars, collateVars>>

\* ------------------------------------------------------ the collation of a batch

\* prepare_samples
Collate ==
    /\ co_state = "new"
    /\ LET r == PrepareSamples(co_samples)
       IN  /\ co_out' = r
           /\ co_state' = IF r.raised THEN "raised" ELSE "done"
    /\ UNCHANGED <<co_samples, loaderVars, shardVars, loadVars, filesVars, schedVars,
                   sampleVars, evalVars, packVars>>

\* ------------------------------------------------------------ specification

PackIdle ==
    /\ pk_seq_lens = <<>> /\ pk_len = 0 /\ pk_out = NoPack /\ pk_state = "off"

CollateIdle ==
    /\ co_samples = <<>> /\ co_out = NoBatch /\ co_state = "off"

SampleIdle ==
    /\ sm_config = [block_size |-> 1, pad |-> FALSE, weighted_loss |-> FALSE]
    /\ sm_raw = [format |-> "alm", input_len |-> 0, target_len |-> 0, weights_len |-> -1,
                 ign_at |-> {}, zero_at |-> {}]
    /\ sm_out = NoFields /\ sm_state = "off"

SchedIdle ==
    /\ bs_config = [batch_size_schedule |-> FALSE, batch_size |-> 1,
                    batch_size_initial |-> 1, batch_size_max_iter |-> 0]
    /\ bs_max = 0 /\ bs_batch_size = 1 /\ bs_iter = -1 /\ bs_ret = 0 /\ bs_state = "off"

FilesIdle ==
    /\ gf_config = [dataset_train_files |-> <<>>, dataset_validation_files |-> <<>>,
                    dataset |-> FALSE]
    /\ gf_disk = <<>> /\ gf_listing = <<>> /\ gf_state = "off"
    /\ gf_train = NoDataset /\ gf_val = NoDataset /\ gf_splits = <<>>

LoadIdle ==
    /\ ld_env = [training_type |-> "pre", world_size |-> 1, rank |-> 0, block_size |-> 1]
    /\ ld_files = <<>> /\ ld_processed_files = <<>> /\ ld_data = <<>> /\ ld_i = 0
    /\ ld_state = "off" /\ ld_warned = {}

EvalIdle ==
    /\ ev_seq_train = TRUE /\ ev_val = <<>> /\ ev_call = NoCall /\ ev_batch = <<>>

UnitIdle ==
    /\ LoadIdle /\ FilesIdle /\ SchedIdle /\ SampleIdle /\ EvalIdle /\ PackIdle
    /\ CollateIdle

ShardIdle ==
    /\ sh_world = 0 /\ sh_raw = <<>> /\ sh_stage = "off" /\ sh_padded = <<>>
    /\ sh_shards = <<>>

\* AllamoDataLoader.__init__ and the start of train() in a process without
\* checkpoint; initial_batch_size is what lines 313-317 make of the configuration
InitLoader(initial_batch_size) ==
    /\ LET ds == NewDataset(config)
       IN  /\ processed_files = ds.processed_files
           /\ data = ds.data
    /\ attempted = NewDatasetAttempts(config)
    /\ epoch = 0
    /\ batch_size = initial_batch_size
    /\ dataset_offset = config.dataset_seq_train_start
    /\ buffer = NoBuffer
    /\ buffer_thread = 0
    /\ buffer_lock = 0
    /\ workers = [w \in 1..MaxWorkers |-> IdleWorker]
    /\ pc = "call"
    /\ samples = <<>>
    /\ first = TRUE
    /\ iterated = FALSE
    /\ current_epoch = 0
    /\ X = <<>>
    /\ trained = <<>>
    /\ ckpt = NoCkpt
    /\ resumes = 0
    /\ hist = <<>>
    /\ taken = NoTake
    /\ prevStart = -1
    /\ lastStart = -1

\* the same without a batch-size schedule, line 317
InitProcess == InitLoader(config.batch_size)

\* any rank of any world, a catalog of up to MaxFiles files, any configuration
Init ==
    /\ world_size \in 1..MaxWorld
    /\ rank \in 0..(world_size - 1)
    /\ \E n \in 1..MaxFiles :
          /\ dataset_files = [i \in 1..n |-> i]
          /\ files \in [1..n -> 0..MaxRaw]
    /\ config \in [batch_size : 1..MaxBatch, dataset_buffer : BOOLEAN,
                   dataset_seq_train_start : 0..MaxStart,
                   dataset_train_processed_files_count : 0..MaxFiles]
    /\ config.dataset_train_processed_files_count <= Len(dataset_files)
    /\ InitProcess
    /\ ShardIdle
    /\ UnitIdle

\* one process per corpus, longer catalogs of shorter files, training from the start
CatalogInit ==
    /\ world_size = 1
    /\ rank = 0
    /\ \E n \in 1..MaxCatalogFiles :
          /\ dataset_files = [i \in 1..n |-> i]
          /\ files \in [1..n -> 0..MaxCatalogRaw]
    /\ config \in [batch_size : 1..MaxBatch, dataset_buffer : BOOLEAN,
                   dataset_seq_train_start : {0},
                   dataset_train_processed_files_count : {0}]
    /\ InitProcess
    /\ ShardIdle
    /\ UnitIdle

Worker ==
    \E w \in 1..MaxWorkers :
        \/ WorkerAcquire(w)
        \/ WorkerSlice(w)
        \/ WorkerPublish(w)

Next ==
    \/ GetBatchFromBuffer
    \/ GetBatchSlice
    \/ GetBatchOneByOne
    \/ ReloadDataset
    \/ FetchSample
    \/ ReloadBuffer
    \/ Worker
    \/ EpochCheckpoint
    \/ SaveCheckpoint
    \/ BeginIteration
    \/ FinishTraining
    \/ TrainStep
    \/ Resume

Spec == Init /\ [][Next]_vars

CatalogSpec == CatalogInit /\ [][Next]_vars

\* the scheduling of the threads: a thread that can run does run; a thread that
\* waits for the lock gets it when the lock is free again and again. The main
\* thread goes on with the call it is in; nothing makes it begin a new iteration,
\* write a checkpoint or be restarted.
Fairness ==
    /\ SF_vars(GetBatchFromBuffer)
    /\ WF_vars(GetBatchSlice \/ GetBatchOneByOne \/ ReloadDataset \/ FetchSample \/ ReloadBuffer)
    /\ \A w \in 1..MaxWorkers :
          /\ SF_vars(WorkerAcquire(w))
          /\ WF_vars(WorkerSlice(w) \/ WorkerPublish(w))

LiveSpec == CatalogInit /\ [][Next]_vars /\ Fairness

\* one process over a catalog given as an explicit list of up to MaxListed names
\* (dataset_train_files), which get_dataset_files sorts and leaves otherwise as it
\* is: a name listed twice is in the catalog twice
ListedInit ==
    /\ world_size = 1
    /\ rank = 0
    /\ \E n \in 1..MaxListed :
          \E listing \in [1..n -> 1..MaxNames] : dataset_files = SortedList(listing)
    /\ files \in [1..MaxNames -> 0..MaxCatalogRaw]
    /\ config \in [batch_size : 1..MaxBatch, dataset_buffer : BOOLEAN,
                   dataset_seq_train_start : {0},
                   dataset_train_processed_files_count : 0..MaxListed]
    /\ config.dataset_train_processed_files_count <= Len(dataset_files)
    /\ InitProcess
    /\ ShardIdle
    /\ UnitIdle

ListedSpec == ListedInit /\ [][Next]_vars

\* one process over a catalog of up to MaxFiles files, sequential or not, with or
\* without a validation dataset of up to MaxValRaw samples (its file is numbered 0)
EvalInit ==
    /\ world_size = 1
    /\ rank = 0
    /\ \E n \in 1..MaxFiles :
          /\ dataset_files = [i \in 1..n |-> i]
          /\ files \in [1..n -> 0..MaxCatalogRaw]
    /\ config \in [batch_size : 1..MaxBatch, dataset_buffer : BOOLEAN,
                   dataset_seq_train_start : {0},
                   dataset_train_processed_files_count : {0}]
    /\ InitProcess
    /\ ShardIdle
    /\ LoadIdle /\ FilesIdle /\ SchedIdle /\ SampleIdle /\ PackIdle /\ CollateIdle
    /\ ev_seq_train \in BOOLEAN
    /\ \E n \in 0..MaxValRaw :
          ev_val = AlignAndLimitToRank(RawSamples(0, n), rank, world_size)
    /\ ev_call = NoCall
    /\ ev_batch = <<>>

\* a process that is not sequential makes no step of the sequential path
EvalNext ==
    \/ ev_seq_train /\ Next
    \/ GetBatchCall

EvalSpec == EvalInit /\ [][EvalNext]_vars

\* no training process: only the file loading of every rank is looked at
LoaderIdle ==
    /\ world_size = 1 /\ rank = 0 /\ files = <<>> /\ dataset_files = <<>>
    /\ config = [batch_size |-> 1, dataset_buffer |-> FALSE, dataset_seq_train_start |-> 0,
                 dataset_train_processed_files_count |-> 0]
    /\ processed_files = <<>> /\ data = <<>> /\ attempted = <<>> /\ epoch = 0
    /\ batch_size = 1
    /\ dataset_offset = 0 /\ buffer = NoBuffer /\ buffer_thread = 0 /\ buffer_lock = 0
    /\ workers = [w \in 1..MaxWorkers |-> IdleWorker]
    /\ pc = "off" /\ samples = <<>> /\ first = TRUE /\ iterated = FALSE
    /\ current_epoch = 0 /\ X = <<>> /\ trained = <<>> /\ ckpt = NoCkpt /\ resumes = 0
    /\ hist = <<>> /\ taken = NoTake /\ prevStart = -1 /\ lastStart = -1

\* a structured-sample file of any length, loaded by every rank of any world
ShardInit ==
    /\ LoaderIdle
    /\ UnitIdle
    /\ sh_world \in 1..MaxShardWorld
    /\ \E n \in 0..MaxShardRaw : sh_raw = RawSamples(1, n)
    /\ sh_stage = "raw"
    /\ sh_padded = <<>>
    /\ sh_shards = [r \in 0..(sh_world - 1) |-> NoShard]

ShardNext ==
    \/ ShardAlign
    \/ \E r \in 0..(sh_world - 1) : ShardLimit(r)

ShardSpec == ShardInit /\ [][ShardNext]_vars

\* the construction of the training dataset of any rank, for any training type,
\* over a catalog of up to MaxLoadFiles files of any kind
LoadInit ==
    /\ LoaderIdle
    /\ ShardIdle
    /\ FilesIdle
    /\ SchedIdle
    /\ SampleIdle
    /\ EvalIdle
    /\ PackIdle
    /\ CollateIdle
    /\ ld_env \in [training_type : {"pre", "sft", "dpo"}, world_size : 1..MaxLoadWorld,
                   rank : 0..(MaxLoadWorld - 1), block_size : 1..MaxBlock]
    /\ ld_env.rank < ld_env.world_size
    /\ \E n \in 1..MaxLoadFiles : ld_files \in [1..n -> FileKinds]
    /\ ld_processed_files = <<>>
    /\ ld_data = <<>>
    /\ ld_i = 0
    /\ ld_state = "loop"
    /\ ld_warned = {}

LoadNext ==
    \/ LoadNextFile
    \/ LoadExhausted

LoadSpec == LoadInit /\ [][LoadNext]_vars

\* the lists of up to MaxListed file names
Listings == UNION {[1..n -> 1..MaxNames] : n \in 0..MaxListed}

\* the orders in which glob can return the files of the directory
Orders(S) == {q \in [1..Cardinality(S) -> S] : \A i, j \in 1..Cardinality(S) : q[i] = q[j] => i = j}

\* the construction of a loader for any configuration of the file lists and any
\* content of the dataset directory
FilesInit ==
    /\ LoaderIdle
    /\ ShardIdle
    /\ LoadIdle
    /\ SchedIdle
    /\ SampleIdle
    /\ EvalIdle
    /\ PackIdle
    /\ CollateIdle
    /\ gf_config \in [dataset_train_files : Listings, dataset_validation_files : Listings,
                      dataset : BOOLEAN]
    /\ gf_disk \in [1..MaxNames -> [supported : BOOLEAN, loadable : BOOLEAN,
                                    prefix : {"train", "val", "both", "other", "absent"}]]
    /\ gf_listing \in Orders({f \in 1..MaxNames : gf_disk[f].prefix # "absent"})
    /\ gf_state = "new"
    /\ gf_train = NoDataset
    /\ gf_val = NoDataset
    /\ gf_splits = <<>>

FilesNext ==
    \/ CreateTrainDataset
    \/ CreateValDataset

FilesSpec == FilesInit /\ [][FilesNext]_vars

\* the ramp lengths looked at: multiples of 25 iterations (an exact cadence of a
\* multiple of 1/4) and their successors (a rounded cadence), 0 included
RampLengths == {25 * k : k \in 0..MaxRampQuarters} \cup {25 * k + 1 : k \in 0..MaxRampQuarters}

\* AllamoDataLoader.__init__, lines 313-317, for any configuration of the schedule
SchedInit ==
    /\ LoaderIdle
    /\ ShardIdle
    /\ LoadIdle
    /\ FilesIdle
    /\ SampleIdle
    /\ EvalIdle
    /\ PackIdle
    /\ CollateIdle
    /\ bs_config \in [batch_size_schedule : BOOLEAN, batch_size : 1..MaxSchedBatch,
                      batch_size_initial : 1..MaxSchedBatch, batch_size_max_iter : RampLengths]
    /\ bs_max = IF bs_config.batch_size_schedule THEN bs_config.batch_size ELSE 0
    /\ bs_batch_size = IF bs_config.batch_size_schedule THEN bs_config.batch_size_initial
                       ELSE bs_config.batch_size
    /\ bs_iter = -1
    /\ bs_ret = 0
    /\ bs_state = "run"

SchedNext == UpdateBatchSize

ScheduleSpec == SchedInit /\ [][SchedNext]_vars

\* one process over a catalog of up to MaxFiles files, with any batch-size schedule
\* (AllamoDataLoader.__init__, lines 313-317) or none
RampInit ==
    /\ world_size = 1
    /\ rank = 0
    /\ \E n \in 1..MaxFiles :
          /\ dataset_files = [i \in 1..n |-> i]
          /\ files \in [1..n -> 0..MaxCatalogRaw]
    /\ config \in [batch_size : 1..MaxBatch, dataset_buffer : BOOLEAN,
                   dataset_seq_train_start : {0},
                   dataset_train_processed_files_count : {0}]
    /\ bs_config \in [batch_size_schedule : BOOLEAN, batch_size : {config.batch_size},
                      batch_size_initial : 1..MaxBatch, batch_size_max_iter : RampLengths]
    /\ ~bs_config.batch_size_schedule =>
          (bs_config.batch_size_initial = 1 /\ bs_config.batch_size_max_iter = 0)
    /\ bs_max = IF bs_config.batch_size_schedule THEN bs_config.batch_size ELSE 0
    /\ bs_batch_size = IF bs_config.batch_size_schedule THEN bs_config.batch_size_initial
                       ELSE bs_config.batch_size
    /\ bs_iter = -1
    /\ bs_ret = 0
    /\ bs_state = "run"
    /\ InitLoader(bs_batch_size)
    /\ ShardIdle
    /\ LoadIdle /\ FilesIdle /\ SampleIdle /\ EvalIdle /\ PackIdle /\ CollateIdle

RampNext ==
    \/ GetBatchFromBuffer
    \/ GetBatchSlice
    \/ GetBatchOneByOne
    \/ ReloadDataset
    \/ FetchSample
    \/ ReloadBuffer
    \/ Worker
    \/ EpochCheckpoint
    \/ RampIteration
    \/ TrainStep

RampSpec == RampInit /\ [][RampNext]_vars

\* one structured sample of any format and any field lengths, under any configuration
SampleInit ==
    /\ LoaderIdle
    /\ ShardIdle
    /\ LoadIdle
    /\ FilesIdle
    /\ SchedIdle
    /\ EvalIdle
    /\ PackIdle
    /\ CollateIdle
    /\ sm_config \in [block_size : 1..MaxSampleBlock, pad : BOOLEAN, weighted_loss : BOOLEAN]
    /\ sm_raw \in [format : {"alm", "pt_dict", "pt_tensor"}, input_len : -1..MaxFieldLen,
                   target_len : -1..MaxFieldLen, weights_len : -1..MaxFieldLen,
                   ign_at : SUBSET (1..MaxMarked), zero_at : SUBSET (1..MaxMarked)]
    /\ sm_raw.ign_at \subseteq 1..sm_raw.target_len
    /\ sm_raw.zero_at \subseteq 1..sm_raw.weights_len
    /\ sm_raw.format = "pt_tensor" =>
          (sm_raw.input_len >= 0 /\ sm_raw.target_len = -1 /\ sm_raw.weights_len = -1)
    /\ sm_out = NoFields
    /\ sm_state = "raw"

SampleNext == Materialize

SampleSpec == SampleInit /\ [][SampleNext]_vars

\* the lists of 1 to MaxSeqs sub-sequence lengths, each from 1 to MaxSeqLen
SeqLens == UNION {[1..k -> 1..MaxSeqLen] : k \in 1..MaxSeqs}

\* one packed sample of any sub-sequence lengths and any padded length
PackInit ==
    /\ LoaderIdle
    /\ ShardIdle
    /\ LoadIdle /\ FilesIdle /\ SchedIdle /\ SampleIdle /\ EvalIdle /\ CollateIdle
    /\ pk_seq_lens \in SeqLens
    /\ pk_len \in 1..MaxPackLen
    /\ pk_out = NoPack
    /\ pk_state = "raw"

PackNext == Pack

PackSpec == PackInit /\ [][PackNext]_vars

\* one batch of 1 to MaxCollate samples of any kinds
CollateInit ==
    /\ LoaderIdle
    /\ ShardIdle
    /\ LoadIdle /\ FilesIdle /\ SchedIdle /\ SampleIdle /\ EvalIdle /\ PackIdle
    /\ co_samples \in UNION {[1..k -> BatchSamples] : k \in 1..MaxCollate}
    /\ co_out = NoBatch
    /\ co_state = "new"

CollateNext == Collate

CollateSpec == CollateInit /\ [][CollateNext]_vars

\* ------------------------------------------------------------------ helpers

RECURSIVE Flatten(_)
Flatten(batches) ==
    IF batches = <<>> THEN <<>> ELSE Head(batches) \o Flatten(Tail(batches))

Range(s) == {s[i] : i \in 1..Len(s)}

\* how many times sample x occurs in the list s
Count(x, s) == Cardinality({i \in 1..Len(s) : s[i] = x})

Loadable(f) == FileData(f) # <<>>

\* the files of the catalog not in ledger pf that load_dataset_file can load
UnprocessedLoadable(pf) ==
    {i \in 1..Len(dataset_files) : ~InSeq(dataset_files[i], pf) /\ Loadable(dataset_files[i])}

\* the catalog positions not in ledger pf
Unprocessed(pf) == {i \in 1..Len(dataset_files) : ~InSeq(dataset_files[i], pf)}

MinOf(S) == CHOOSE x \in S : \A y \in S : x <= y

\* the sample after s in the sequential order of the corpus: the next sample of the
\* shard of its file, or the first sample of the next loadable file, cyclically
SuccSample(s) ==
    LET d == FileData(s[1])
        i == CHOOSE k \in 1..Len(d) : d[k] = s
        pos == CHOOSE k \in 1..Len(dataset_files) : dataset_files[k] = s[1]
        later == {k \in (pos + 1)..Len(dataset_files) : Loadable(dataset_files[k])}
        all == {k \in 1..Len(dataset_files) : Loadable(dataset_files[k])}
    IN  IF i < Len(d) THEN d[i + 1]
        ELSE IF later # {} THEN FileData(dataset_files[MinOf(later)])[1]
        ELSE FileData(dataset_files[MinOf(all)])[1]

\* list s follows the sequential order without a gap and without a repetition
Contiguous(s) == \A k \in 1..(Len(s) - 1) : s[k + 1] = SuccSample(s[k])

\* the main thread is between two get_batch calls
BetweenCalls == pc \in {"head", "micro", "call", "done"}

\* ------------------------------------------------------------------- claims

\* C1's case: a single-file corpus, training from offset 0 with a batch size below
\* the number of samples of the shard, in the process that started the run
SingleFileRun ==
    /\ Len(dataset_files) = 1
    /\ config.dataset_seq_train_start = 0
    /\ config.dataset_train_processed_files_count = 0
    /\ batch_size < Len(data)
    /\ resumes = 0

\* the samples get_batch has delivered, in order
Delivered == Flatten(hist)

\* every sample of the shard is delivered once before any is delivered twice
CoverageBeforeRepeat ==
    \A s \in Range(data) :
        Count(s, Delivered) >= 2 => \A t \in Range(data) : Count(t, Delivered) >= 1

\* when B divides K, the n-th batch is delivered in epoch (n - 1) div (K / B)
EpochPerBatches ==
    (Len(data) % batch_size = 0 /\ BetweenCalls /\ hist # <<>>)
        => epoch = (Len(hist) - 1) \div (Len(data) \div batch_size)

\* C1: in sequential training over a single-file corpus of K samples with batch
\* size B < K from offset 0, get_batch delivers every sample once before any sample
\* a second time, and when B divides K the epoch grows by one per K/B batches.
C1_SingleFileCoverage == SingleFileRun => (CoverageBeforeRepeat /\ EpochPerBatches)

\* C1 with the prefetch buffer disabled in the configuration: no batch is taken
\* from the slot
C1_SingleFileCoverageUnbuffered ==
    (SingleFileRun /\ ~config.dataset_buffer) => (CoverageBeforeRepeat /\ EpochPerBatches)

\* C2: after a checkpoint and a resume, the samples trained on before the save
\* followed by those trained on after the resume follow the sequential order with
\* no sample skipped and none repeated (stated for the configuration without
\* prefetch buffer, where every batch is assembled by the main thread).
C2_ResumeLosesNoSample ==
    (resumes > 0 /\ ~config.dataset_buffer) => Contiguous(trained)

\* without a resume and without buffer the trained samples follow the order
TrainedInOrderWithoutResume ==
    (resumes = 0 /\ ~config.dataset_buffer) => Contiguous(trained)

\* a new process has restored the checkpoint and has not yet asked for a batch
JustResumed == resumes > 0 /\ pc = "call" /\ first

\* C3: restoring a checkpoint in a fresh loader over the same catalog gives the
\* loaded file (its data), the ledger, the offset and the epoch of the save.
C3_ResumeRoundTrip ==
    JustResumed =>
        /\ data = ckpt.data
        /\ processed_files = ckpt.processed_files
        /\ dataset_offset = ckpt.dataset_offset
        /\ epoch = ckpt.epoch

\* C3's case: a resume in the middle of a file that is not the first of the ledger
C3_Witness ==
    /\ JustResumed
    /\ Len(ckpt.processed_files) >= 2
    /\ ckpt.dataset_offset > 0
    /\ ckpt.dataset_offset < Len(ckpt.data)

\* C4: between two rollovers the start offsets of the batches get_batch returns
\* are strictly increasing, whichever way a batch is assembled.
C4_StartOffsetsIncrease == lastStart = -1 \/ prevStart < lastStart

\* C4 with the prefetch buffer disabled
C4_StartOffsetsIncreaseUnbuffered ==
    ~config.dataset_buffer => (lastStart = -1 \/ prevStart < lastStart)

\* the prefetch workers started and not yet finished
AliveWorkers == {w \in 1..MaxWorkers : Alive(w)}

\* C5: at most one prefetch worker is started and not yet finished.
C5_AtMostOneWorker == Cardinality(AliveWorkers) <= 1

\* C6: whenever get_batch_from_buffer takes a slot, its batch is the samples
\* [o, o+n) of the loaded file, o the cursor offset before the call and n the batch
\* size, and its stored offset is o+n.
C6_SlotConsistent ==
    taken.full =>
        /\ taken.batch = Slice(data, taken.pre, taken.pre + batch_size)
        /\ Len(taken.batch) = batch_size
        /\ taken.offset = taken.pre + batch_size

\* the ranks whose shard has been computed
ShardDone == {r \in 0..(sh_world - 1) : sh_shards[r].done}

\* the padded-list positions rank r holds, in the order it holds them
ShardPositions(r) == [k \in 1..Len(sh_shards[r].tagged) |-> sh_shards[r].tagged[k][1]]

\* the positions congruent to r modulo the world size, below the padded length
StridePositions(r) == {q \in 0..(Len(sh_padded) - 1) : q % sh_world = r}

\* C7: the shards of limit_samples_to_rank are pairwise disjoint sets of positions
\* of the padded list, rank r holds exactly the positions r, r+world_size, ... in
\* increasing order, and all the shards together hold every position exactly once.
C7_ShardsPartitionPositions ==
    /\ \A r \in ShardDone :
          /\ Range(ShardPositions(r)) = StridePositions(r)
          /\ Len(sh_shards[r].tagged) = Cardinality(StridePositions(r))
          /\ \A k \in 1..Len(sh_shards[r].tagged) :
                /\ ShardPositions(r)[k] = r + (k - 1) * sh_world
                /\ sh_shards[r].tagged[k][2] = sh_padded[ShardPositions(r)[k] + 1]
    /\ \A r1, r2 \in ShardDone :
          r1 # r2 => Range(ShardPositions(r1)) \cap Range(ShardPositions(r2)) = {}
    /\ ShardDone = 0..(sh_world - 1) =>
          UNION {Range(ShardPositions(r)) : r \in ShardDone} = 0..(Len(sh_padded) - 1)

\* C7's case: several ranks, several samples each, every shard computed
C7_Witness ==
    /\ sh_stage = "aligned"
    /\ sh_world >= 2
    /\ Len(sh_padded) >= 2 * sh_world
    /\ ShardDone = 0..(sh_world - 1)

\* the ranks that hold sample x after one load of the file
Holders(x) == {r \in ShardDone : x \in Range(sh_shards[r].samples)}

\* the number of samples cyclic padding appends
PaddingLength == Len(sh_padded) - Len(sh_raw)

\* C8 as stated: after one load of one file (cyclic padding, then rank sharding) no
\* two different ranks hold the same sample of the file.
C8_NoSampleOnTwoRanks ==
    \A x \in Range(sh_raw) : Cardinality(Holders(x)) <= 1

\* C8 as amended: a rank holds no sample twice, only the first padding_length
\* samples of the file (the ones the padding repeats) are held by two ranks, and no
\* sample is held by more than two; once every rank has loaded, each repeated
\* sample is on exactly two ranks and every other sample on exactly one.
C8_OnlyPaddingShared ==
    /\ \A r \in ShardDone :
          \A i, j \in 1..Len(sh_shards[r].samples) :
              sh_shards[r].samples[i] = sh_shards[r].samples[j] => i = j
    /\ \A x \in Range(sh_raw) :
          /\ Cardinality(Holders(x)) <= 2
          /\ Cardinality(Holders(x)) = 2 => x[2] < PaddingLength
          /\ (sh_stage = "aligned" /\ ShardDone = 0..(sh_world - 1)) =>
                Cardinality(Holders(x)) = IF x[2] < PaddingLength THEN 2 ELSE 1

\* C8's case: a file whose length is no multiple of the world size, loaded by all
C8_Witness ==
    /\ sh_stage = "aligned"
    /\ sh_world >= 2
    /\ PaddingLength >= 2
    /\ ShardDone = 0..(sh_world - 1)

\* a step of reload_dataset: the cursor had exhausted the loaded file
ReloadStep == pc = "loop" /\ pc' \in {"fetch", "failed"}

\* a step of the running process (no new process takes over)
SameProcess == resumes' = resumes

\* the catalog files up to and including the one at position i
CatalogUpTo(i) == SubSeq(dataset_files, 1, i)

AllLoadable == {i \in 1..Len(dataset_files) : Loadable(dataset_files[i])}

\* C9 as stated: the epoch counter is incremented exactly when the cursor exhausts
\* the loaded file and no file of the catalog remains outside the ledger; then the
\* ledger holds the files up to the first loadable one, which is loaded, and the
\* offset is 0; no other transition changes the epoch counter.
C9_EpochExactlyWhenLedgerFull ==
    [][ /\ (epoch' # epoch /\ SameProcess) => ReloadStep
        /\ (ReloadStep /\ AllLoadable # {}) =>
              /\ epoch' = epoch + 1 <=> Unprocessed(processed_files) = {}
              /\ epoch' # epoch => epoch' = epoch + 1
              /\ epoch' = epoch + 1 =>
                    /\ dataset_offset' = 0
                    /\ data' = FileData(dataset_files[MinOf(AllLoadable)])
                    /\ processed_files' = CatalogUpTo(MinOf(AllLoadable)) ]_vars

\* C9 as amended: the epoch counter is incremented, by one, exactly by a
\* reload_dataset call that finds no loadable file outside the ledger and does not
\* fail its assertion (a file too short to load does not delay the rollover); then
\* the offset is 0 and, in a catalog of several files, the ledger holds the files up
\* to the first loadable one, which is loaded, while a single-file catalog keeps
\* its ledger and data; no other transition of a process changes the counter.
C9_EpochExactlyWhenNoLoadableLeft ==
    [][ /\ (epoch' # epoch /\ SameProcess) => ReloadStep
        /\ ReloadStep =>
              /\ epoch' = epoch + 1 <=>
                    (UnprocessedLoadable(processed_files) = {} /\ pc' = "fetch")
              /\ epoch' # epoch => epoch' = epoch + 1
              /\ epoch' = epoch + 1 =>
                    /\ dataset_offset' = 0
                    /\ IF Len(dataset_files) > 1
                       THEN /\ AllLoadable # {}
                            /\ data' = FileData(dataset_files[MinOf(AllLoadable)])
                            /\ processed_files' = CatalogUpTo(MinOf(AllLoadable))
                       ELSE UNCHANGED <<data, processed_files>> ]_vars

\* C9's case: an epoch rollover in a catalog of several files, one of them too
\* short to load, has just reloaded the first loadable file
C9_Witness ==
    /\ pc = "fetch"
    /\ epoch >= 1
    /\ dataset_offset = 0
    /\ Len(dataset_files) > 1
    /\ AllLoadable # 1..Len(dataset_files)
    /\ processed_files = CatalogUpTo(MinOf(AllLoadable))

\* C10 as stated: when the cursor exhausts the loaded file and an unprocessed
\* loadable file exists, the first file of the catalog that is not in the ledger is
\* loaded, the offset is 0 and the epoch is unchanged; the offset is 0 after every
\* change of the loaded file by reload_dataset.
C10_NextFileIsFirstUnprocessed ==
    [][ ReloadStep =>
          /\ UnprocessedLoadable(processed_files) # {} =>
                /\ data' = FileData(dataset_files[MinOf(Unprocessed(processed_files))])
                /\ data' # <<>>
                /\ dataset_offset' = 0
                /\ epoch' = epoch
          /\ data' # data => dataset_offset' = 0 ]_vars

\* C10 as amended: the file loaded is the first loadable file of the catalog that
\* is not in the ledger (files before it that are not in the ledger and too short
\* to load are added to the ledger and skipped); the rest as stated.
C10_NextFileIsFirstLoadableUnprocessed ==
    [][ ReloadStep =>
          /\ UnprocessedLoadable(processed_files) # {} =>
                LET i == MinOf(UnprocessedLoadable(processed_files))
                IN  /\ data' = FileData(dataset_files[i])
                    /\ data' # <<>>
                    /\ Range(processed_files') =
                           Range(processed_files) \cup
                           {dataset_files[k] : k \in {j \in Unprocessed(processed_files) : j <= i}}
                    /\ processed_files'[Len(processed_files')] = dataset_files[i]
                    /\ dataset_offset' = 0
                    /\ epoch' = epoch
          /\ data' # data => dataset_offset' = 0 ]_vars

\* C10's case: the cursor has just moved to the third file, skipping a second
\* file that is too short to load, within the first epoch
C10_Witness ==
    /\ pc = "fetch"
    /\ epoch = 0
    /\ dataset_offset = 0
    /\ Len(dataset_files) >= 3
    /\ ~Loadable(dataset_files[2])
    /\ processed_files = CatalogUpTo(3)
    /\ LoadedFile = dataset_files[3]

\* C12: when the cursor is exhausted and no file of the catalog can be loaded,
\* get_batch fails in reload_dataset: the epoch counter is not incremented and no
\* batch is returned, for a catalog of one file as for a catalog of several.
C12_NoLoadableFileIsFatal ==
    [][(ReloadStep /\ AllLoadable = {}) =>
          (pc' = "failed" /\ epoch' = epoch /\ hist' = hist)]_vars

\* C12 for a catalog of several files
C12_NoLoadableFileIsFatalSeveral ==
    [][(ReloadStep /\ AllLoadable = {} /\ Len(dataset_files) > 1) =>
          (pc' = "failed" /\ epoch' = epoch /\ hist' = hist)]_vars

\* ------------------------------------------------ claims on the loading of files

\* the for loop of load_next_dataset is about to load the catalog entry ld_i + 1
AboutToLoad == ld_state = "loop" /\ ld_i < Len(ld_files)
NextFile == ld_files[ld_i + 1]

\* below the minimum size: a continuous file with fewer than
\* world_size * (block_size + 1) tokens, a sample list with fewer than world_size samples
TooShort(file) ==
    \/ file.kind = "tensor" /\ file.n < ld_env.world_size * (ld_env.block_size + 1)
    \/ file.kind = "list" /\ file.n < ld_env.world_size

\* the training type admits the format: .bin for pre-training only, .pt not for DPO
Admitted(file) ==
    /\ file.ext = "bin" => ld_env.training_type = "pre"
    /\ file.ext = "pt" => ld_env.training_type # "dpo"

\* the file is skipped with a warning and the loop goes on to the next entry
SkippedWithWarning ==
    /\ ld_state' = "loop"
    /\ ld_i' = ld_i + 1
    /\ ld_processed_files' = Append(ld_processed_files, ld_i + 1)
    /\ ld_data' = <<>>
    /\ (ld_i + 1) \in ld_warned'

\* C11 as stated: loading a file below the minimum size does not raise; the file is
\* skipped with a warning, the ledger keeps what it held, the loop goes on.
C11_ShortFileSkipped ==
    [][(AboutToLoad /\ TooShort(NextFile)) => SkippedWithWarning]_vars

\* C11 as amended: the same for a file whose format the training type admits (a
\* .bin file under a training type other than 'pre' and a .pt file under 'dpo' fail
\* an assertion before their length is looked at).
C11_AdmittedShortFileSkipped ==
    [][(AboutToLoad /\ TooShort(NextFile) /\ Admitted(NextFile)) => SkippedWithWarning]_vars

\* C11's case: the first file, a continuous one, was skipped with a warning and
\* the second file of the catalog has been loaded
C11_Witness ==
    /\ ld_state = "loaded"
    /\ ld_files[1].kind = "tensor"
    /\ 1 \in ld_warned
    /\ ld_processed_files = <<1, 2>>

\* neither .bin, .pt nor .alm, or not a supported content
Unsupported(file) == file.ext \notin {"bin", "pt", "alm"} \/ file.kind = "other"

\* C15: loading a file with an unsupported extension or an unsupported content
\* terminates the process with a fatal error; the file is not skipped.
C15_UnsupportedFileIsFatal ==
    [][(AboutToLoad /\ Unsupported(NextFile)) => ld_state' = "raised"]_vars

\* C16: under DPO a .bin or .pt file is rejected when it is loaded: the load raises,
\* nothing of the file is loaded and no other file is tried afterwards.
C16_DpoRejectsUnstructured ==
    [][ /\ (AboutToLoad /\ ld_env.training_type = "dpo" /\ NextFile.ext \in {"bin", "pt"}) =>
            (ld_state' = "raised" /\ ld_data' = <<>> /\ ld_i' = ld_i)
        /\ ld_state = "raised" => UNCHANGED loadVars ]_vars

\* C16's case: a .pt file was rejected under DPO although a loadable .alm file
\* follows it in the catalog
C16_Witness ==
    /\ ld_state = "raised"
    /\ ld_env.training_type = "dpo"
    /\ ld_env.world_size = 1
    /\ Len(ld_files) = 2
    /\ ld_files[1].ext = "pt"
    /\ ld_files[2] = [ext |-> "alm", kind |-> "list", n |-> 2]
    /\ ld_processed_files = <<1>>

\* token i of the first file of the catalog
Tok(i) == <<1, i>>

\* block_size 4, world_size 2, pre-training, and the first file of the catalog, a
\* .bin file of n tokens, is the only one the loop has looked at
Scenario(n) ==
    /\ ld_env.training_type = "pre"
    /\ ld_env.block_size = 4
    /\ ld_env.world_size = 2
    /\ ld_files[1] = [ext |-> "bin", kind |-> "tensor", n |-> n]
    /\ ld_processed_files = <<1>>

\* C20 as stated: the file of 9 tokens is padded to 10 by repeating its first token
\* and cut into 2 samples of 5 tokens; rank 0 holds sample 0, rank 1 sample 1.
C20_NineTokensPadded ==
    Scenario(9) =>
        ld_data = IF ld_env.rank = 0
                  THEN << <<Tok(0), Tok(1), Tok(2), Tok(3), Tok(4)>> >>
                  ELSE << <<Tok(5), Tok(6), Tok(7), Tok(8), Tok(0)>> >>

\* C20 as amended: sample_size is 5 and step_size 10, so the file of 9 tokens is
\* below the minimum: it is skipped with a warning and nothing is loaded; a file of
\* 11 tokens is padded to 20 by repeating its first 9 tokens and cut into 4 samples
\* of 5 tokens; rank 0 holds samples 0 and 2, rank 1 samples 1 and 3.
C20_NineTokensSkipped ==
    /\ Scenario(9) => (ld_data = <<>> /\ 1 \in ld_warned /\ ld_state # "loaded")
    /\ Scenario(11) =>
          /\ ld_state = "loaded"
          /\ ld_data = IF ld_env.rank = 0
                       THEN << <<Tok(0), Tok(1), Tok(2), Tok(3), Tok(4)>>,
                               <<Tok(10), Tok(0), Tok(1), Tok(2), Tok(3)>> >>
                       ELSE << <<Tok(5), Tok(6), Tok(7), Tok(8), Tok(9)>>,
                               <<Tok(4), Tok(5), Tok(6), Tok(7), Tok(8)>> >>

\* C20's case: rank 1 has been through the file of 9 tokens
C20_Witness == Scenario(9) /\ ld_env.rank = 1 /\ ld_i = 1

\* ------------------------------------- claims on the construction of the loader

StrictlyIncreasing(s) == \A i, j \in 1..Len(s) : i < j => s[i] < s[j]
Increasing(s) == \A i, j \in 1..Len(s) : i < j => s[i] <= s[j]

\* C13: the catalog get_dataset_files returns, for the training and for the
\* validation split, is in lexicographic order and holds no file twice.
C13_SortedAndDeduplicated ==
    /\ StrictlyIncreasing(gf_train.dataset_files)
    /\ StrictlyIncreasing(gf_val.dataset_files)

\* C13 without the deduplication: the catalogs are in lexicographic order
C13_Sorted ==
    /\ Increasing(gf_train.dataset_files)
    /\ Increasing(gf_val.dataset_files)

\* the files a split resolves to: the explicit list, else the files of the dataset
\* directory with a supported extension and the prefix of the split
Candidates(explicit, prefixes) ==
    IF explicit # <<>> THEN Range(explicit)
    ELSE IF gf_config.dataset
         THEN {f \in Range(gf_listing) : gf_disk[f].supported /\ gf_disk[f].prefix \in prefixes}
         ELSE {}

TrainCandidates == Candidates(gf_config.dataset_train_files, {"train", "both"})
ValCandidates == Candidates(gf_config.dataset_validation_files, {"val", "both"})

OnRampCadence(iter_num) ==
    /\ bs_config.batch_size_max_iter > 0
    /\ (iter_num * 100) % bs_config.batch_size_max_iter = 0

\* C18: over any sequence of update_batch_size calls, with the schedule enabled and
\* the initial batch size at most the maximum, the batch size never decreases, grows
\* by at most 1 per call and only on a call on the ramp cadence, never exceeds the
\* maximum, and a call returns the current batch size; with the schedule disabled
\* the batch size never changes.
C18_BatchSizeRamp ==
    [][ /\ bs_batch_size' >= bs_batch_size
        /\ bs_batch_size' <= bs_batch_size + 1
        /\ bs_batch_size' > bs_batch_size => OnRampCadence(bs_iter')
        /\ (bs_config.batch_size_schedule
              /\ bs_config.batch_size_initial <= bs_config.batch_size) =>
                 bs_batch_size' <= bs_config.batch_size
        /\ bs_state' = "run" => bs_ret' = bs_batch_size'
        /\ ~bs_config.batch_size_schedule => bs_batch_size' = bs_config.batch_size ]_vars

\* C18's case: the ramp went from the initial batch size to a higher maximum, and
\* a later call, off the cadence, returned the maximum
C18_Witness ==
    /\ bs_state = "run"
    /\ bs_config.batch_size_schedule
    /\ bs_config.batch_size_initial < bs_config.batch_size
    /\ bs_batch_size = bs_config.batch_size
    /\ bs_ret = bs_batch_size
    /\ bs_iter > 0
    /\ ~OnRampCadence(bs_iter)

\* --------------------------------------- claims on the materialization of samples

\* a pad token is configured and the fields present in the raw sample have the
\* same length
WellFormedRaw ==
    /\ sm_config.pad
    /\ sm_raw.input_len >= 0
    /\ sm_raw.target_len = sm_raw.input_len \/ (sm_raw.format # "alm" /\ sm_raw.target_len = -1)
    /\ sm_raw.weights_len \in {-1, sm_raw.input_len}

\* C19: a materialized structured sample has input_ids and target_ids of the same
\* length, exactly block_size, whether the raw sample is shorter than, as long as or
\* longer than block_size; with weighted loss its target_weights has that length too.
C19_FieldsHaveBlockSize ==
    (sm_state = "done" /\ WellFormedRaw) =>
        /\ Len(sm_out.input_ids) = sm_config.block_size
        /\ Len(sm_out.target_ids) = sm_config.block_size
        /\ sm_config.weighted_loss =>
              (sm_out.has_weights /\ Len(sm_out.target_weights) = sm_config.block_size)

\* C19 for the samples of a .pt list: pad_or_truncate_to_block_size does truncate
C19_PtFieldsHaveBlockSize ==
    (sm_state = "done" /\ WellFormedRaw /\ sm_raw.format # "alm") =>
        /\ Len(sm_out.input_ids) = sm_config.block_size
        /\ Len(sm_out.target_ids) = sm_config.block_size
        /\ sm_config.weighted_loss =>
              (sm_out.has_weights /\ Len(sm_out.target_weights) = sm_config.block_size)

\* ------------------------------------------ claims on get_batch outside the cursor

\* the arguments of a call make get_batch sample at random
RandomSampling(c) == c.random_samples \/ c.split = "val" \/ ~ev_seq_train

\* a step in which get_batch is entered with such arguments
RandomSamplingCall ==
    /\ ev_call' # ev_call \/ ev_batch' # ev_batch
    /\ ev_call'.split # "none"
    /\ RandomSampling(ev_call')

\* C17: a get_batch call that samples at random (random_samples=True, the validation
\* split, or training not sequential) returns without having changed the dataset
\* offset, the ledger, the loaded file, the epoch, the prefetch slot or the worker.
C17_RandomCallLeavesCursor ==
    [][RandomSamplingCall =>
          /\ ev_call'.done
          /\ UNCHANGED <<dataset_offset, processed_files, data, epoch, buffer,
                         buffer_thread, workers>>]_vars

\* a random batch of the training split was returned in the middle of a file while a
\* prefetch worker was running
C17_Witness ==
    /\ ev_call = [split |-> "train", random_samples |-> TRUE, done |-> TRUE]
    /\ ev_batch # <<>>
    /\ pc = "head"
    /\ ev_seq_train
    /\ 0 < dataset_offset /\ dataset_offset < DatasetLen
    /\ buffer_thread # 0 /\ Alive(buffer_thread)

\* ----------------------------------------------- claims on the cyclic padding

\* C21: for data of n >= step_size >= 1 elements, align_data_to_step_size returns
\* data whose length is the smallest multiple of step_size that is >= n, whose first
\* n elements are the input and whose other elements are the first (length - n)
\* elements of the input; nothing is appended to a multiple of step_size, and a
\* second application changes nothing.
C21_CyclicPadding ==
    sh_stage = "aligned" =>
        LET n == Len(sh_raw)
            length == Len(sh_padded)
        IN  /\ length % sh_world = 0
            /\ n <= length /\ length < n + sh_world
            /\ SubSeq(sh_padded, 1, n) = sh_raw
            /\ SubSeq(sh_padded, n + 1, length) = SubSeq(sh_raw, 1, length - n)
            /\ n % sh_world = 0 => sh_padded = sh_raw
            /\ AlignDataToStepSize(sh_padded, sh_world) = sh_padded

\* a list was padded with more than one of its first elements
C21_Witness ==
    /\ sh_stage = "aligned"
    /\ Len(sh_padded) > Len(sh_raw) + 1

\* ------------------------------------------- claims on the one-at-a-time path

\* a step of the main thread inside the for loop of get_batch, lines 464-468, of a
\* process that has a file loaded
OneByOneStep ==
    /\ pc \in {"loop", "fetch"}
    /\ SameProcess
    /\ data # <<>>
    /\ pc' # pc \/ samples' # samples \/ dataset_offset' # dataset_offset

\* the last k elements of s
LastOf(s, k) == SubSeq(s, Len(s) - k + 1, Len(s))

\* C22: when fewer than batch_size samples remain in the loaded file, get_batch draws
\* the samples one at a time: every remaining sample of the loaded file in order,
\* the rollover only once the cursor is at the end of the file, then the samples of
\* the newly loaded file from index 0; the batch has batch_size samples and the
\* offset afterwards is the number of samples drawn from the newly loaded file.
C22_OneByOneAcrossRollover ==
    [][OneByOneStep =>
          \/ /\ ReloadStep
             /\ dataset_offset >= DatasetLen
             /\ samples' = samples
             /\ pc' = "fetch"
             /\ data' # <<>>
             /\ dataset_offset' = 0
          \/ /\ dataset_offset < DatasetLen
             /\ samples' = Append(samples, data[dataset_offset + 1])
             /\ dataset_offset' = dataset_offset + 1
             /\ data' = data
             /\ \/ pc' = "reload_buffer" /\ Len(samples') = batch_size
                \/ pc' = "loop" /\ Len(samples') < batch_size
             /\ LET k == Min(dataset_offset', Len(samples'))
                IN  LastOf(samples', k) = SubSeq(data, dataset_offset' - k + 1, dataset_offset')]_vars

\* a batch of two samples was assembled one at a time across a rollover: the last
\* sample of one file, then the first sample of the next
C22_Witness ==
    /\ pc = "reload_buffer"
    /\ batch_size = 2
    /\ Len(samples) = 2
    /\ samples[1][1] # samples[2][1]
    /\ samples[1][2] = files[samples[1][1]] - 1
    /\ samples[2] = data[1]
    /\ dataset_offset = 1

\* ------------------------------------------- claims on the taking of the slot

\* get_batch_from_buffer takes the slot
TakeStep == pc = "call" /\ taken'.full

\* the reload_buffer of a call that took the slot
ReloadAfterTake == pc = "reload_buffer" /\ taken.full /\ pc' # pc /\ SameProcess

\* C23: with buffering, the consumer that takes a slot adopts its stored offset as
\* the cursor and empties the slot; it then starts the next prefetch if and only if
\* offset + batch_size <= the number of samples of the loaded file; otherwise it
\* starts no worker, so that no worker is left to fill the slot and the next
\* get_batch('train') assembles its batch synchronously.
C23_TakeThenPrefetch ==
    [][/\ TakeStep => (dataset_offset' = buffer.offset /\ pc' = "reload_buffer")
       /\ ReloadAfterTake =>
             /\ buffer' = NoBuffer
             /\ IF dataset_offset + batch_size <= DatasetLen
                THEN buffer_thread' # 0 /\ workers'[buffer_thread'].pc = "start"
                ELSE buffer_thread' = 0 /\ \A w \in 1..MaxWorkers : workers'[w].pc = "idle"]_vars

\* --------------------------------------------------- claims on the buffer lock

\* the slot is replaced or cleared by a step of the running process
SlotWritten == buffer' # buffer /\ SameProcess

\* the step is made by a worker that holds the lock (the main thread holds the lock
\* only inside the with block of get_batch_from_buffer, which is one step and does
\* not write the slot)
WriterHoldsLock ==
    \E w \in 1..MaxWorkers : buffer_lock = w /\ workers'[w] # workers[w]

\* a worker is at the slice of the dataset and the assembly of the batch while it
\* holds the lock
SlicesUnderLock ==
    \E w \in 1..MaxWorkers : workers[w].pc = "hi" /\ buffer_lock = w

\* C24: the prefetch slot is replaced and cleared only by a thread that holds the
\* buffer lock, and no thread holds the lock while it slices the dataset or
\* assembles the batch.
C24_SlotOnlyUnderLock ==
    [][(SlotWritten => WriterHoldsLock) /\ ~SlicesUnderLock]_vars

\* C24, first half alone: the slot is written only under the lock
C24_WritesUnderLock ==
    [][SlotWritten => WriterHoldsLock]_vars

\* ------------------------------------------------------- claims on termination

\* the main thread is inside get_batch('train')
InGetBatch == pc \in {"call", "loop", "fetch", "reload_buffer"}

\* get_batch has handed a batch to the training loop
Returned == pc \in {"head", "micro"}

\* C25: under fair scheduling every started prefetch worker finishes and releases
\* the buffer lock, and every get_batch call on a corpus with a loadable file
\* returns (the calls past the bound MaxCalls of the model are not looked at).
C25_WorkersFinishCallsReturn ==
    /\ \A w \in 1..MaxWorkers : (Alive(w) ~> (~Alive(w) /\ buffer_lock # w))
    /\ (InGetBatch /\ Len(hist) < MaxCalls /\ AllLoadable # {}) ~> Returned

\* C25, the worker alone: every started worker finishes and releases the lock
C25_WorkersFinish ==
    \A w \in 1..MaxWorkers : (Alive(w) ~> (~Alive(w) /\ buffer_lock # w))

\* C25, the call alone, a raised exception counted as an end of the call
C25_CallsEnd ==
    (InGetBatch /\ Len(hist) < MaxCalls /\ AllLoadable # {}) ~> (Returned \/ pc = "failed")

\* ------------------------------------------- claims on the padding of samples

\* a raw sample with input_ids and target_ids, both shorter than block_size, and no
\* target_weights, under a configuration with a pad token and weighted loss
ShortSample ==
    /\ sm_raw.format \in {"alm", "pt_dict"}
    /\ sm_config.pad /\ sm_config.weighted_loss
    /\ 0 <= sm_raw.input_len /\ sm_raw.input_len < sm_config.block_size
    /\ sm_raw.target_len = sm_raw.input_len
    /\ sm_raw.weights_len = -1

\* what C26 describes, for the sample in sm_raw
PaddedAsDescribed ==
    /\ sm_out.input_ids = PadTo(Tokens(sm_raw.input_len), sm_config.block_size, "pad")
    /\ sm_out.target_ids = PadTo(TargetTokens(sm_raw), sm_config.block_size, "ign")
    /\ sm_out.has_weights
    /\ sm_out.target_weights = WeightsOf(sm_out.target_ids)

\* C26: a structured sample whose input_ids and target_ids are shorter than
\* block_size (pad token configured, weighted loss, no target_weights supplied)
\* keeps its values as a prefix, has the rest of input_ids filled with pad_token_id
\* and the rest of target_ids with the ignore sentinel, and gets target_weights 1
\* where target_ids is not the sentinel and 0 elsewhere, on the .alm path and on
\* the .pt list path.
C26_ShortSamplePadded ==
    ShortSample => (sm_state = "done" => PaddedAsDescribed)

\* C26 on the .alm path alone
C26_ShortAlmSamplePadded ==
    (ShortSample /\ sm_raw.format = "alm") => (sm_state = "done" => PaddedAsDescribed)

\* the weight of every ignored position of the materialized sample is 0
ZeroWhereIgnored ==
    \A i \in 1..Min(Len(sm_out.target_ids), Len(sm_out.target_weights)) :
        sm_out.target_ids[i] = "ign" => sm_out.target_weights[i] = 0

\* C27: with weighted loss, the target_weights of every materialized sample is 0
\* wherever its target_ids is the ignore sentinel, whether the weights are derived
\* or supplied by the file.
C27_ZeroWeightWhereIgnored ==
    (sm_state = "done" /\ sm_config.weighted_loss) =>
        (sm_out.has_weights /\ ZeroWhereIgnored)

\* C27 for derived weights alone
C27_DerivedZeroWeightWhereIgnored ==
    (sm_state = "done" /\ sm_config.weighted_loss /\ sm_raw.weights_len = -1) =>
        (sm_out.has_weights /\ ZeroWhereIgnored)

\* --------------------------------------------- claims on the packed samples

\* the total length S of the packed sub-sequences
PackedTotal == SumOf(pk_seq_lens)

\* where sub-sequence m starts (from 0), and the sub-sequence position i lies in
StartOf(m) == SumOf(SubSeq(pk_seq_lens, 1, m - 1))
SubSequenceOf(i) ==
    CHOOSE m \in 1..Len(pk_seq_lens) : StartOf(m) <= i /\ i < StartOf(m) + pk_seq_lens[m]

\* C28: for a packed sample with seq_lens = [l1..lk] of sum S at most the padded
\* length L, the attention mask is L x L; entry (i, j) with i, j < S is true exactly
\* when i and j lie in the same sub-sequence and j <= i; an entry with i >= S or
\* j >= S is true exactly when i = j; input_pos restarts at 0 with each
\* sub-sequence, increases by 1 inside it, and over the padding goes on by 1 from
\* the length of the last sub-sequence.
C28_PackedMaskAndPositions ==
    (pk_state # "raw" /\ PackedTotal <= pk_len) =>
        /\ pk_state = "done"
        /\ pk_out.size = pk_len
        /\ pk_out.attn_mask \subseteq (0..(pk_len - 1)) \X (0..(pk_len - 1))
        /\ \A i, j \in 0..(pk_len - 1) :
              (<<i, j>> \in pk_out.attn_mask) <=>
                  IF i < PackedTotal /\ j < PackedTotal
                  THEN SubSequenceOf(i) = SubSequenceOf(j) /\ j <= i
                  ELSE i = j
        /\ Len(pk_out.input_pos) = pk_len
        /\ \A i \in 0..(pk_len - 1) :
              pk_out.input_pos[i + 1] =
                  IF i < PackedTotal THEN i - StartOf(SubSequenceOf(i))
                  ELSE pk_seq_lens[Len(pk_seq_lens)] + (i - PackedTotal)

\* the sample of the description: sub-sequences of 3 and 2 tokens and a padding
C28_Witness ==
    /\ pk_state = "done"
    /\ pk_seq_lens = <<3, 2>>
    /\ pk_len = 6
    /\ pk_out.input_pos = <<0, 1, 2, 0, 1, 2>>
    /\ <<5, 5>> \in pk_out.attn_mask

\* ------------------------------------------------- claims on the collation

\* every sample of the batch carries the optional field
EveryCarries(name) == \A k \in 1..Len(co_samples) : co_samples[k][name]

\* C29: prepare_samples puts an optional field (target_weights, attn_mask,
\* input_pos) in the collated batch only if every sample of the batch carries it; for
\* a batch of dict samples of which some carry the field and others do not, the
\* field is left out and the collation does not fail, wherever those samples are.
C29_OptionalFieldOnlyIfAllCarry ==
    (co_state # "new" /\ EveryCarries("dict")) =>
        /\ co_state = "done"
        /\ co_out.target_weights => EveryCarries("target_weights")
        /\ co_out.attn_mask => EveryCarries("attn_mask")
        /\ co_out.input_pos => EveryCarries("input_pos")

\* C29 for the batches whose first sample carries none of the optional fields
C29_FirstSampleWithoutFields ==
    (/\ co_state # "new" /\ EveryCarries("dict")
     /\ ~co_samples[1].target_weights /\ ~co_samples[1].attn_mask
     /\ ~co_samples[1].input_pos) =>
        /\ co_state = "done"
        /\ ~co_out.target_weights /\ ~co_out.attn_mask /\ ~co_out.input_pos

\* ------------------------------------- claims on buffered against unbuffered

\* the main thread of the first process is between two get_batch calls
FirstProcessBetweenCalls == resumes = 0 /\ BetweenCalls

\* the batches returned so far and the epoch are those of the same number of calls
\* made without any prefetch
AsWithoutPrefetch ==
    LET run == SequentialRun(Len(hist))
    IN  hist = run.hist /\ epoch = run.state.epoch

\* C30: with a constant batch size, the batches and the epoch values delivered by
\* sequential get_batch with buffering enabled are those delivered with buffering
\* disabled, for every interleaving of the prefetch worker with the main thread.
C30_BufferedAsUnbuffered ==
    (FirstProcessBetweenCalls /\ config.dataset_buffer) => AsWithoutPrefetch

\* C30's reference: with buffering disabled the batches and epochs are those of
\* SequentialRun, whatever the workers do
C30_UnbufferedIsSequentialRun ==
    (FirstProcessBetweenCalls /\ ~config.dataset_buffer) => AsWithoutPrefetch

\* ----------------------------------- claims on the prefetch worker and the slot

\* the consumer has taken a slot and released the lock: the call stands between
\* the with block of get_batch_from_buffer and its reload_buffer, or its assertion
\* has failed
SlotTaken == taken.full /\ pc \in {"reload_buffer", "failed"}

\* C31: the assertion in get_batch_from_buffer never fails: whenever the consumer
\* has taken a slot and released the lock, the most recently started prefetch
\* worker is absent or has terminated.
C31_NoWorkerAfterTake ==
    SlotTaken => (buffer_thread = 0 \/ ~Alive(buffer_thread))

\* C32: when dataset_buffer is false, sequential get_batch never starts a prefetch
\* worker and the prefetch slot stays empty.
C32_NoPrefetchWithoutBuffering ==
    ~config.dataset_buffer =>
        /\ buffer_thread = 0
        /\ AliveWorkers = {}
        /\ ~buffer.full

\* reload_dataset goes to load_next_dataset, which drops the data and loads a file
SwapStep == ReloadStep /\ SameProcess /\ Len(dataset_files) > 1

\* C33: no prefetch worker is running while the main thread swaps the loaded file:
\* at every step of reload_dataset that drops and replaces the data, no started
\* worker is still to read the dataset.
C33_NoWorkerDuringSwap ==
    [][SwapStep => AliveWorkers = {}]_vars

\* ------------------------------------- claims on the cursor and on the ledger

\* get_batch('train') has returned in this process and no call is under way
AfterReturn == BetweenCalls /\ hist # <<>>

\* C34: after every return of a sequential get_batch('train') call on a corpus with
\* a loadable file, 0 <= dataset_offset <= the number of samples of the loaded file,
\* on the synchronous and on the buffered path.
C34_CursorWithinLoadedFile ==
    (AfterReturn /\ AllLoadable # {}) =>
        (0 <= dataset_offset /\ dataset_offset <= DatasetLen)

\* C34 without buffering
C34_CursorWithinLoadedFileUnbuffered ==
    (AfterReturn /\ AllLoadable # {} /\ ~config.dataset_buffer) =>
        (0 <= dataset_offset /\ dataset_offset <= DatasetLen)

\* the ledger holds only catalog files
LedgerOfCatalog ==
    \A i \in 1..Len(processed_files) : InSeq(processed_files[i], dataset_files)

\* the ledger holds no file twice
LedgerWithoutRepeat ==
    \A i, j \in 1..Len(processed_files) :
        i # j => processed_files[i] # processed_files[j]

\* whenever data is loaded, the last entry of the ledger is the loaded file
LedgerEndsWithLoaded ==
    data # <<>> =>
        /\ processed_files # <<>>
        /\ processed_files[Len(processed_files)] = LoadedFile

\* C35: the processed-files ledger contains only catalog files, contains no file
\* twice, and, whenever data is loaded, its last entry is the file whose data is
\* loaded.
C35_LedgerWellFormed ==
    LedgerOfCatalog /\ LedgerWithoutRepeat /\ LedgerEndsWithLoaded

\* C35 over a catalog that may name a file twice, the repetition left aside
C35_LedgerOfCatalogEndsWithLoaded ==
    LedgerOfCatalog /\ LedgerEndsWithLoaded

\* --------------------------------------- claims on the length assertions

\* a dict sample of a .pt list with input_ids, its target_ids as long as input_ids
\* or absent (then derived as input_ids[1:]), its target_weights absent (then
\* derived from target_ids under weighted loss)
DictSample ==
    /\ sm_raw.format = "pt_dict"
    /\ sm_raw.input_len >= 0
    /\ sm_raw.target_len \in {-1, sm_raw.input_len}
    /\ sm_raw.weights_len = -1

\* the fields the assertions of lines 191-193 compare have equal lengths
EqualLengths ==
    /\ Len(sm_out.input_ids) = Len(sm_out.target_ids)
    /\ sm_config.weighted_loss => Len(sm_out.input_ids) = Len(sm_out.target_weights)

\* C38: the length assertions at the end of pad_or_truncate_to_block_size never
\* fail: for every dict sample of a .pt file, of any input length, with target_ids
\* supplied or derived as input_ids shifted by one, with a pad token or without,
\* input_ids and target_ids (and target_weights under weighted loss) have equal
\* lengths after the operation.
C38_LengthsAgree ==
    (DictSample /\ sm_state # "raw") => (sm_state = "done" /\ EqualLengths)

\* C38 with a pad token configured
C38_LengthsAgreeWithPadToken ==
    (DictSample /\ sm_config.pad /\ sm_state # "raw") =>
        (sm_state = "done" /\ EqualLengths)

\* C38 for target_ids supplied with the length of input_ids
C38_LengthsAgreeSuppliedTargets ==
    (DictSample /\ sm_raw.target_len >= 0 /\ sm_state # "raw") =>
        (sm_state = "done" /\ EqualLengths)

\* ------------------------------------------ claims on the size of the batches

\* get_batch('train') hands a batch to the training loop
ReturnStep == Len(hist') = Len(hist) + 1

\* C36: every batch returned by get_batch contains exactly as many samples as the
\* batch size of the loader at the time of the call, also when the batch comes
\* from the prefetch slot and update_batch_size has raised the batch size between
\* the prefetch and the call.
C36_BatchHasBatchSize ==
    [][ReturnStep => Len(X') = batch_size]_vars

\* C36 without buffering
C36_BatchHasBatchSizeUnbuffered ==
    [][(ReturnStep /\ ~config.dataset_buffer) => Len(X') = batch_size]_vars

\* ------------------------------------------- claims on the attempts to load

\* file f is skipped: load_dataset_file returns False for it
Skipped(f) == ~Loadable(f)

\* the positions of `attempted` that are attempts of file f
AttemptsOf(f) == {k \in 1..Len(attempted) : attempted[k][2] = f}

\* C37: a file whose load is attempted is appended to the processed-files ledger
\* whether or not the load succeeds (every file attempted in the running epoch is
\* in the ledger), so a skipped file is attempted at most once per epoch: it is
\* attempted again only after the ledger was cleared at an epoch rollover.
C37_AttemptedOncePerEpoch ==
    /\ \A k \in 1..Len(attempted) :
           attempted[k][1] = epoch => InSeq(attempted[k][2], processed_files)
    /\ \A k1, k2 \in 1..Len(attempted) :
           (k1 < k2 /\ attempted[k1][2] = attempted[k2][2] /\ Skipped(attempted[k1][2]))
               => attempted[k1][1] < attempted[k2][1]

\* C37's case: a skipped file was attempted, and attempted again in a later epoch,
\* and is in the ledger
C37_Witness ==
    \E f \in Range(dataset_files) :
        /\ Skipped(f)
        /\ Cardinality(AttemptsOf(f)) >= 2
        /\ InSeq(f, processed_files)
        /\ data # <<>>

====
